---- MODULE Spec2Model ----
(***************************************************************************)
(* Verification model of the list-token state machine and of the list      *)
(* entry points of the target service (zimtls/boundary).                   *)
(*                                                                         *)
(* Time is an integer counted in half database read timeouts              *)
(* (globals.DatabaseReadTimeout is 5 s, one unit is 2.5 s), so the slack   *)
(* is two units and the 30 days of token validity are 30*86400/2.5 units.  *)
(***************************************************************************)
EXTENDS Integers, Sequences, FiniteSets, TLC

VARIABLES
    now,      \* the clock: time.Now() and the database transaction time
    tk,       \* token under test (listtoken.Token), token specification
    tlast,    \* the last listtoken call made on tk and its outcome
    store,    \* the target table and its deleted-ids table, per public id
    denied,   \* public ids the caller's filter callback rejects
    tok,      \* the list token the client holds (NilToken before List)
    req,      \* arguments of the last list request
    resp,     \* response of the last list request
    run,      \* history: sort keys of the items returned in the current run
    clean,    \* history: no write happened since the current run began
    reported, \* history: deleted ids reported since the token was issued
    refreshed, \* history: (id, update time) returned by the token's refreshes
    writes,   \* number of writes to the target table so far
    cache_user,         \* daemon cache: rows of table cache_user
    cache_stored_token, \* daemon cache: rows of table cache_stored_token
    cache_target,       \* daemon cache: rows of table cache_target
    keyring,  \* keys under which the external keyring holds a live token
    call,     \* the last call made on the cache repository and its outcome
    ncalls,   \* number of calls made on the cache repository so far
    proxy,    \* the fields of the ClientProxy and of its session
    task,     \* position of Start and of the tasks it spawned
    la,       \* the call of ListenerAddr in progress and its outcome
    inflight  \* cache calls running concurrently: their statements' positions

tokvars == <<tk, tlast>>
listvars == <<store, denied, tok, req, resp, run, clean, reported, refreshed, writes>>
cachevars == <<cache_user, cache_stored_token, cache_target, keyring, call, ncalls>>
proxyvars == <<proxy, task, la>>
vars == <<now, tk, tlast, store, denied, tok, req, resp, run, clean, reported, refreshed, writes,
          cache_user, cache_stored_token, cache_target, keyring, call, ncalls,
          proxy, task, la, inflight>>

----------------------------------------------------------------------------
(* Program constants *)

DatabaseReadTimeout == 2
ThirtyDays == 1036800

(* Error kinds (internal/errors) *)
OK == "ok"
InvalidParameter == "InvalidParameter"
Internal == "Internal"

(* Token subtypes *)
PaginationKind == "PaginationToken"
StartRefreshKind == "StartRefreshToken"
RefreshKind == "RefreshToken"

(* Public ids are totally ordered strings; they are modelled as positive    *)
(* integers in the same order, and the empty string as 0.                  *)
EmptyId == 0

NilToken == [Subtype |-> [kind |-> "nil"]]
NilItem == [publicId |-> EmptyId, createTime |-> -1, updateTime |-> -1, resourceType |-> "unknown"]

PaginationToken(lastItemId, lastItemCreateTime) ==
    [kind |-> PaginationKind, LastItemId |-> lastItemId,
     LastItemCreateTime |-> lastItemCreateTime]

StartRefreshToken(previousPhaseUpperBound, previousDeletedIdsTime) ==
    [kind |-> StartRefreshKind,
     PreviousPhaseUpperBound |-> previousPhaseUpperBound,
     PreviousDeletedIdsTime |-> previousDeletedIdsTime]

RefreshToken(phaseUpperBound, phaseLowerBound, previousDeletedIdsTime, lastItemId, lastItemUpdateTime) ==
    [kind |-> RefreshKind,
     PhaseUpperBound |-> phaseUpperBound,
     PhaseLowerBound |-> phaseLowerBound,
     PreviousDeletedIdsTime |-> previousDeletedIdsTime,
     LastItemId |-> lastItemId,
     LastItemUpdateTime |-> lastItemUpdateTime]

Token(createTime, typ, grantsHash, subtype) ==
    [CreateTime |-> createTime, ResourceType |-> typ,
     GrantsHash |-> grantsHash, Subtype |-> subtype]

----------------------------------------------------------------------------
(* listtoken Token.Transition: the token after the call.  The call      *)
(* returns an error only for an unknown subtype, and leaves the token.     *)

(* Faulty variant: hands on the list time instead of the create time *)
TransitionPagination_ListTime(t, completeListing, lastItem, deletedIdsTime, listTime) ==
    IF completeListing
    THEN [t EXCEPT !.Subtype = StartRefreshToken(listTime, deletedIdsTime)]
    ELSE [t EXCEPT !.Subtype = PaginationToken(lastItem.publicId, lastItem.createTime)]

(* Faulty variant: a completed listing hands out a token made anew at    *)
(* the list time.                                                        *)
TransitionPagination_Renewed(t, completeListing, lastItem, deletedIdsTime, listTime) ==
    IF completeListing
    THEN Token(listTime, t.ResourceType, t.GrantsHash,
               StartRefreshToken(listTime, listTime))
    ELSE [t EXCEPT !.Subtype = PaginationToken(lastItem.publicId, lastItem.createTime)]

TransitionPagination(t, completeListing, lastItem, deletedIdsTime, listTime) ==
    IF completeListing
    THEN [t EXCEPT !.Subtype = StartRefreshToken(t.CreateTime, t.CreateTime)]
    ELSE [t EXCEPT !.Subtype = PaginationToken(lastItem.publicId, lastItem.createTime)]

(* Faulty variant: an unfinished refresh listing hands out a pagination *)
(* token.                                                               *)
TransitionStartRefresh_Paginates(t, completeListing, lastItem, deletedIdsTime, listTime) ==
    IF completeListing
    THEN [t EXCEPT !.Subtype = StartRefreshToken(listTime, deletedIdsTime)]
    ELSE [t EXCEPT !.Subtype = PaginationToken(lastItem.publicId, lastItem.createTime)]

(* Faulty variant: the two times of the completed listing exchanged *)
TransitionStartRefresh_Swapped(t, completeListing, lastItem, deletedIdsTime, listTime) ==
    IF completeListing
    THEN [t EXCEPT !.Subtype = StartRefreshToken(deletedIdsTime, listTime)]
    ELSE [t EXCEPT !.Subtype =
            RefreshToken(listTime, t.Subtype.PreviousPhaseUpperBound,
                         deletedIdsTime, lastItem.publicId, lastItem.updateTime)]

(* Faulty variant: the two phase bounds exchanged *)
TransitionStartRefresh_BoundsSwapped(t, completeListing, lastItem, deletedIdsTime, listTime) ==
    IF completeListing
    THEN [t EXCEPT !.Subtype = StartRefreshToken(listTime, deletedIdsTime)]
    ELSE [t EXCEPT !.Subtype =
            RefreshToken(t.Subtype.PreviousPhaseUpperBound, listTime,
                         deletedIdsTime, lastItem.publicId, lastItem.updateTime)]

TransitionStartRefresh(t, completeListing, lastItem, deletedIdsTime, listTime) ==
    IF completeListing
    THEN [t EXCEPT !.Subtype = StartRefreshToken(listTime, deletedIdsTime)]
    ELSE [t EXCEPT !.Subtype =
            RefreshToken(listTime, t.Subtype.PreviousPhaseUpperBound,
                         deletedIdsTime, lastItem.publicId, lastItem.updateTime)]

(* Faulty variant: a completed phase hands on the list time *)
TransitionRefresh_NewUpper(t, completeListing, lastItem, deletedIdsTime, listTime) ==
    IF completeListing
    THEN [t EXCEPT !.Subtype = StartRefreshToken(listTime, deletedIdsTime)]
    ELSE [t EXCEPT !.Subtype =
            RefreshToken(t.Subtype.PhaseUpperBound, t.Subtype.PhaseLowerBound,
                         deletedIdsTime, lastItem.publicId, lastItem.updateTime)]

TransitionRefresh(t, completeListing, lastItem, deletedIdsTime, listTime) ==
    IF completeListing
    THEN [t EXCEPT !.Subtype =
            StartRefreshToken(t.Subtype.PhaseUpperBound, deletedIdsTime)]
    ELSE [t EXCEPT !.Subtype =
            RefreshToken(t.Subtype.PhaseUpperBound, t.Subtype.PhaseLowerBound,
                         deletedIdsTime, lastItem.publicId, lastItem.updateTime)]

Transition(t, completeListing, lastItem, deletedIdsTime, listTime) ==
    CASE t.Subtype.kind = PaginationKind ->
            TransitionPagination(t, completeListing, lastItem, deletedIdsTime, listTime)
      [] t.Subtype.kind = StartRefreshKind ->
            TransitionStartRefresh(t, completeListing, lastItem, deletedIdsTime, listTime)
      [] t.Subtype.kind = RefreshKind ->
            TransitionRefresh(t, completeListing, lastItem, deletedIdsTime, listTime)
      [] OTHER -> t

TransitionErr(t) ==
    IF t.Subtype.kind \in {PaginationKind, StartRefreshKind, RefreshKind}
    THEN OK ELSE Internal

----------------------------------------------------------------------------
(* listtoken Token.Validate at time n *)

(* Faulty variant: the order of the two phase bounds is not checked *)
ValidateRefresh_NoOrder(t, n) ==
    LET st == t.Subtype IN
    IF \/ st.PhaseUpperBound < t.CreateTime
       \/ st.PhaseUpperBound > n
       \/ st.PhaseLowerBound < t.CreateTime
       \/ st.PhaseLowerBound > n
       \/ st.PreviousDeletedIdsTime < t.CreateTime
       \/ st.PreviousDeletedIdsTime > n
       \/ st.LastItemId = EmptyId
       \/ st.LastItemUpdateTime > n
       \/ st.LastItemUpdateTime < t.CreateTime
    THEN InvalidParameter ELSE OK

ValidateRefresh(t, n) ==
    LET st == t.Subtype IN
    IF \/ st.PhaseUpperBound < t.CreateTime
       \/ st.PhaseUpperBound > n
       \/ st.PhaseLowerBound < t.CreateTime
       \/ st.PhaseLowerBound > n
       \/ st.PhaseUpperBound < st.PhaseLowerBound
       \/ st.PreviousDeletedIdsTime < t.CreateTime
       \/ st.PreviousDeletedIdsTime > n
       \/ st.LastItemId = EmptyId
       \/ st.LastItemUpdateTime > n
       \/ st.LastItemUpdateTime < t.CreateTime
    THEN InvalidParameter ELSE OK

ValidatePagination(t, n) ==
    LET st == t.Subtype IN
    IF \/ st.LastItemId = EmptyId
       \/ st.LastItemCreateTime > n
    THEN InvalidParameter ELSE OK

ValidateStartRefresh(t, n) ==
    LET st == t.Subtype IN
    IF \/ st.PreviousPhaseUpperBound < t.CreateTime
       \/ st.PreviousPhaseUpperBound > n
       \/ st.PreviousDeletedIdsTime < t.CreateTime
       \/ st.PreviousDeletedIdsTime > n
    THEN InvalidParameter ELSE OK

(* Faulty variant: the grants hash is not compared *)
ValidateCommon_AnyGrants(t, n, expectedResourceType, expectedGrantsHash) ==
    IF \/ t = NilToken
       \/ Len(t.GrantsHash) = 0
       \/ t.CreateTime > n
       \/ t.CreateTime < n - ThirtyDays
       \/ t.ResourceType # expectedResourceType
    THEN InvalidParameter ELSE OK

ValidateCommon(t, n, expectedResourceType, expectedGrantsHash) ==
    IF \/ t = NilToken
       \/ Len(t.GrantsHash) = 0
       \/ t.GrantsHash # expectedGrantsHash
       \/ t.CreateTime > n
       \/ t.CreateTime < n - ThirtyDays
       \/ t.ResourceType # expectedResourceType
    THEN InvalidParameter ELSE OK

Validate(t, n, expectedResourceType, expectedGrantsHash) ==
    IF t = NilToken THEN InvalidParameter
    ELSE IF ValidateCommon(t, n, expectedResourceType, expectedGrantsHash) # OK
    THEN InvalidParameter
    ELSE CASE t.Subtype.kind = RefreshKind -> ValidateRefresh(t, n)
           [] t.Subtype.kind = PaginationKind -> ValidatePagination(t, n)
           [] t.Subtype.kind = StartRefreshKind -> ValidateStartRefresh(t, n)
           [] OTHER -> OK

----------------------------------------------------------------------------
(* The target table.  store[i] is the life of public id i: absent, then    *)
(* present with its create and update time, then deleted with the time of  *)
(* its row in the deleted-ids table.                                       *)

MaxItems == 3
MaxTime == 2
MaxWrites == 3
Ids == 1..MaxItems

AbsentRow == [st |-> "absent", createTime |-> 0, updateTime |-> 0, deleteTime |-> 0]

Target(i, st) ==
    [publicId |-> i, createTime |-> st[i].createTime,
     updateTime |-> st[i].updateTime, resourceType |-> "target"]

Rows(st) == {Target(i, st) : i \in {j \in Ids : st[j].st = "present"}}

Min(a, b) == IF a < b THEN a ELSE b

(* SQL row comparison (t1, i1) < (t2, i2) *)
RowLess(t1, i1, t2, i2) == t1 < t2 \/ (t1 = t2 /\ i1 < i2)

(* order by create_time desc, public_id asc limit n *)
OrderByCreateTime(S, n) ==
    [k \in 1..Min(n, Cardinality(S)) |->
        CHOOSE x \in S :
            Cardinality({y \in S :
                \/ y.createTime > x.createTime
                \/ (y.createTime = x.createTime /\ y.publicId < x.publicId)}) = k - 1]

(* order by update_time desc, public_id asc limit n *)
OrderByUpdateTime(S, n) ==
    [k \in 1..Min(n, Cardinality(S)) |->
        CHOOSE x \in S :
            Cardinality({y \in S :
                \/ y.updateTime > x.updateTime
                \/ (y.updateTime = x.updateTime /\ y.publicId < x.publicId)}) = k - 1]

(* The four list queries.  The permission search condition is taken to     *)
(* admit every row; restrictions are left to the filter callback.          *)
listTargetsTemplate(rows, limit) ==
    OrderByCreateTime(rows, limit)

listTargetsPageTemplate(rows, limit, last_item_create_time, last_item_id) ==
    OrderByCreateTime(
        {r \in rows : RowLess(r.createTime, r.publicId,
                              last_item_create_time, last_item_id)}, limit)

refreshTargetsTemplate(rows, limit, updated_after_time) ==
    OrderByUpdateTime({r \in rows : r.updateTime > updated_after_time}, limit)

refreshTargetsPageTemplate(rows, limit, updated_after_time, last_item_update_time, last_item_id) ==
    OrderByUpdateTime(
        {r \in rows : /\ r.updateTime > updated_after_time
                      /\ RowLess(r.updateTime, r.publicId,
                                 last_item_update_time, last_item_id)}, limit)

(* Repository methods of the target package that run the queries *)
listTargets(rows, limit, startPageAfterItem) ==
    IF startPageAfterItem = NilItem
    THEN listTargetsTemplate(rows, limit)
    ELSE listTargetsPageTemplate(rows, limit, startPageAfterItem.createTime,
                                 startPageAfterItem.publicId)

listTargetsRefresh(rows, updatedAfter, limit, startPageAfterItem) ==
    IF startPageAfterItem = NilItem
    THEN refreshTargetsTemplate(rows, limit, updatedAfter)
    ELSE refreshTargetsPageTemplate(rows, limit, updatedAfter,
                                    startPageAfterItem.updateTime,
                                    startPageAfterItem.publicId)

listDeletedIds(st, since) ==
    {i \in Ids : st[i].st = "deleted" /\ st[i].deleteTime >= since}

(* listtoken Token.LastItem; a StartRefresh token has no last item *)
LastItem(t) ==
    CASE t.Subtype.kind = PaginationKind ->
            [publicId |-> t.Subtype.LastItemId,
             createTime |-> t.Subtype.LastItemCreateTime,
             updateTime |-> -1, resourceType |-> t.ResourceType]
      [] t.Subtype.kind = RefreshKind ->
            [publicId |-> t.Subtype.LastItemId, createTime |-> -1,
             updateTime |-> t.Subtype.LastItemUpdateTime,
             resourceType |-> t.ResourceType]
      [] OTHER -> NilItem

(* The listItemsFn and listDeletedIdsFn closures of the four entry points  *)
List_listItemsFn(rows, lastPageItem, limit) ==
    listTargets(rows, limit, lastPageItem)

ListPage_listItemsFn(t, rows, lastPageItem, limit) ==
    listTargets(rows, limit,
                IF lastPageItem # NilItem THEN lastPageItem ELSE LastItem(t))

ListRefresh_listItemsFn(t, rows, lastPageItem, limit) ==
    listTargetsRefresh(rows,
        t.Subtype.PreviousPhaseUpperBound - DatabaseReadTimeout,
        limit, lastPageItem)

ListRefreshPage_listItemsFn(t, rows, lastPageItem, limit) ==
    listTargetsRefresh(rows,
        t.Subtype.PhaseLowerBound - DatabaseReadTimeout, limit,
        IF lastPageItem # NilItem THEN lastPageItem ELSE LastItem(t))

(* Faulty variant: the read timeout is added instead of subtracted *)
ListRefresh_listDeletedIdsFn_Forward(st, since) ==
    listDeletedIds(st, since + DatabaseReadTimeout)

ListRefresh_listDeletedIdsFn(st, since) ==
    listDeletedIds(st, since - DatabaseReadTimeout)

ListRefreshPage_listDeletedIdsFn(st, since) ==
    listDeletedIds(st, since - DatabaseReadTimeout)

listItemsFn(op, t, rows, lastPageItem, limit) ==
    CASE op = "List" -> List_listItemsFn(rows, lastPageItem, limit)
      [] op = "ListPage" -> ListPage_listItemsFn(t, rows, lastPageItem, limit)
      [] op = "ListRefresh" -> ListRefresh_listItemsFn(t, rows, lastPageItem, limit)
      [] op = "ListRefreshPage" -> ListRefreshPage_listItemsFn(t, rows, lastPageItem, limit)

listDeletedIdsFn(op, st, since) ==
    IF op = "ListRefresh"
    THEN ListRefresh_listDeletedIdsFn(st, since)
    ELSE ListRefreshPage_listDeletedIdsFn(st, since)

(* pagination.list: fill a page of limit = pageSize + 1 accepted items,    *)
(* asking the source again after the last row read while it returns full   *)
(* pages.  Returns the accepted items and the number of source calls.      *)
list_called(filled) == [items |-> filled.items, calls |-> filled.calls + 1]

RECURSIVE list(_, _, _, _, _, _, _)
list_page(op, t, rows, rejected, limit, items, page) ==
    LET accepted == SelectSeq(page, LAMBDA x : x.publicId \notin rejected)
        all == items \o accepted
    IN  IF Len(all) >= limit
        THEN [items |-> SubSeq(all, 1, limit), calls |-> 1]
        ELSE IF Len(page) < limit
        THEN [items |-> all, calls |-> 1]
        ELSE list_called(list(op, t, rows, rejected, limit, page[Len(page)], all))

list(op, t, rows, rejected, limit, lastItem, items) ==
    list_page(op, t, rows, rejected, limit, items,
              listItemsFn(op, t, rows, lastItem, limit))

----------------------------------------------------------------------------
(* Requests and responses *)

NoRequest ==
    [op |-> "none", grantsHash |-> <<>>, pageSize |-> 0, filterItemFn |-> "nil",
     tok |-> NilToken, repo |-> "nil"]

NoResponse ==
    [err |-> OK, items |-> <<>>, completeListing |-> FALSE, deletedIds |-> {},
     listedDeleted |-> FALSE, scanCalls |-> 0]

Request(op, grantsHash, pageSize, filterItemFn, t, repo) ==
    [op |-> op, grantsHash |-> grantsHash, pageSize |-> pageSize,
     filterItemFn |-> filterItemFn, tok |-> t, repo |-> repo]

Failure(e, calls) == [NoResponse EXCEPT !.err = e, !.scanCalls = calls]

(* Argument checks of the entry points of the target package *)
List_args(rq) ==
    IF \/ Len(rq.grantsHash) = 0
       \/ rq.pageSize < 1
       \/ rq.filterItemFn = "nil"
       \/ rq.repo = "nil"
    THEN InvalidParameter ELSE OK

(* Faulty variant: the repository is not checked *)
ListPage_args_NoRepoCheck(rq) ==
    IF \/ Len(rq.grantsHash) = 0
       \/ rq.pageSize < 1
       \/ rq.filterItemFn = "nil"
       \/ rq.tok = NilToken
       \/ rq.tok.Subtype.kind # PaginationKind
    THEN InvalidParameter ELSE OK

ListPage_args(rq) ==
    IF \/ Len(rq.grantsHash) = 0
       \/ rq.pageSize < 1
       \/ rq.filterItemFn = "nil"
       \/ rq.tok = NilToken
       \/ rq.tok.Subtype.kind # PaginationKind
       \/ rq.repo = "nil"
    THEN InvalidParameter ELSE OK

ListRefresh_args(rq) ==
    IF \/ Len(rq.grantsHash) = 0
       \/ rq.pageSize < 1
       \/ rq.filterItemFn = "nil"
       \/ rq.tok = NilToken
       \/ rq.tok.Subtype.kind # StartRefreshKind
       \/ rq.repo = "nil"
    THEN InvalidParameter ELSE OK

ListRefreshPage_args(rq) ==
    IF \/ Len(rq.grantsHash) = 0
       \/ rq.pageSize < 1
       \/ rq.filterItemFn = "nil"
       \/ rq.tok = NilToken
       \/ rq.tok.Subtype.kind # RefreshKind
       \/ rq.repo = "nil"
    THEN InvalidParameter ELSE OK

(* pagination package: argument and token validation of an entry point *)
RequiredSubtype(op) ==
    CASE op = "ListPage" -> PaginationKind
      [] op = "ListRefresh" -> StartRefreshKind
      [] op = "ListRefreshPage" -> RefreshKind
      [] OTHER -> "nil"

pagination_validate(rq, n) ==
    IF \/ Len(rq.grantsHash) = 0
       \/ rq.pageSize < 1
       \/ rq.filterItemFn = "nil"
    THEN InvalidParameter
    ELSE IF rq.op = "List" THEN OK
    ELSE IF rq.tok = NilToken THEN InvalidParameter
    ELSE IF rq.tok.Subtype.kind # RequiredSubtype(rq.op) THEN InvalidParameter
    ELSE Validate(rq.tok, n, "target", rq.grantsHash)

(* pagination.List, ListPage, ListRefresh, ListRefreshPage after          *)
(* validation: fill the page (pagination_serve), then with the filled     *)
(* page (pagination_respond) list the deleted ids in a refresh (always at *)
(* the end of the data, otherwise when listDeleted), count the items and  *)
(* transition the token.  All reads see the table at time n.              *)
(* Faulty variant: the probe item is not cut off the page *)
pagination_respond_NoProbe(rq, st, n, listDeleted, filled) ==
    LET completeListing == Len(filled.items) < rq.pageSize + 1
        items == filled.items
        lastItem == IF Len(items) > 0 THEN items[Len(items)] ELSE NilItem
        refresh == rq.op \in {"ListRefresh", "ListRefreshPage"}
        doDeleted == refresh /\ (completeListing \/ listDeleted)
        since == IF refresh THEN rq.tok.Subtype.PreviousDeletedIdsTime ELSE n
        deletedIds == IF doDeleted THEN listDeletedIdsFn(rq.op, st, since) ELSE {}
        t0 == IF rq.op = "List"
              THEN Token(n, "target", rq.grantsHash,
                         PaginationToken(lastItem.publicId, lastItem.createTime))
              ELSE rq.tok
    IN  [resp |-> [err |-> OK, items |-> items,
                   completeListing |-> completeListing,
                   deletedIds |-> deletedIds, listedDeleted |-> doDeleted,
                   scanCalls |-> filled.calls + 1 + (IF doDeleted THEN 1 ELSE 0)],
         tok |-> Transition(t0, completeListing, lastItem,
                            IF doDeleted THEN n ELSE since, n)]

pagination_respond(rq, st, n, listDeleted, filled) ==
    LET completeListing == Len(filled.items) < rq.pageSize + 1
        items == IF completeListing THEN filled.items
                 ELSE SubSeq(filled.items, 1, rq.pageSize)
        lastItem == IF Len(items) > 0 THEN items[Len(items)] ELSE NilItem
        refresh == rq.op \in {"ListRefresh", "ListRefreshPage"}
        doDeleted == refresh /\ (completeListing \/ listDeleted)
        since == IF refresh THEN rq.tok.Subtype.PreviousDeletedIdsTime ELSE n
        deletedIds == IF doDeleted THEN listDeletedIdsFn(rq.op, st, since) ELSE {}
        deletedIdsTime == IF doDeleted THEN n ELSE since
        listTime == n
        t0 == IF rq.op = "List"
              THEN Token(listTime, "target", rq.grantsHash,
                         PaginationToken(lastItem.publicId, lastItem.createTime))
              ELSE rq.tok
    IN  [resp |-> [err |-> OK, items |-> items,
                   completeListing |-> completeListing,
                   deletedIds |-> deletedIds, listedDeleted |-> doDeleted,
                   scanCalls |-> filled.calls + 1 + (IF doDeleted THEN 1 ELSE 0)],
         tok |-> Transition(t0, completeListing, lastItem, deletedIdsTime, listTime)]

pagination_serve(rq, st, rejected, n, listDeleted) ==
    pagination_respond(rq, st, n, listDeleted,
        list(rq.op, rq.tok, Rows(st), rejected, rq.pageSize + 1, NilItem, <<>>))

(* An entry point of the target package: its own argument checks, then    *)
(* the pagination package with the closures over the repository.  A call  *)
(* through a nil repository panics in the first query.                    *)
Serve(rq, argsErr, st, rejected, n, listDeleted) ==
    IF argsErr # OK THEN [resp |-> Failure(argsErr, 0), tok |-> rq.tok]
    ELSE IF pagination_validate(rq, n) # OK
    THEN [resp |-> Failure(pagination_validate(rq, n), 0), tok |-> rq.tok]
    ELSE IF rq.repo = "nil" THEN [resp |-> Failure("panic", 1), tok |-> rq.tok]
    ELSE pagination_serve(rq, st, rejected, n, listDeleted)

CreateKeys(items) == [k \in 1..Len(items) |-> [t |-> items[k].createTime, id |-> items[k].publicId]]
UpdateKeys(items) == [k \in 1..Len(items) |-> [t |-> items[k].updateTime, id |-> items[k].publicId]]
Range(f) == {f[k] : k \in DOMAIN f}

----------------------------------------------------------------------------
(* Actions: the four list requests of a client, writers, and the clock *)

List_returns(rq, out) ==
    /\ req' = rq
    /\ resp' = out.resp
    /\ IF out.resp.err = OK
       THEN /\ tok' = out.tok
            /\ run' = CreateKeys(out.resp.items)
            /\ clean' = TRUE
            /\ reported' = {}
            /\ refreshed' = {}
       ELSE UNCHANGED <<tok, run, clean, reported, refreshed>>
    /\ UNCHANGED <<now, store, denied, writes, tokvars, cachevars, proxyvars, inflight>>

List(G, P, F, R) ==
    \E g \in G, ps \in P, f \in F, r \in R :
        LET rq == Request("List", g, ps, f, NilToken, r)
        IN  List_returns(rq, Serve(rq, List_args(rq), store, denied, now, FALSE))

ListPage_returns(rq, out) ==
    /\ req' = rq
    /\ resp' = out.resp
    /\ IF out.resp.err = OK
       THEN /\ tok' = out.tok
            /\ run' = IF clean THEN run \o CreateKeys(out.resp.items) ELSE <<>>
       ELSE UNCHANGED <<tok, run>>
    /\ UNCHANGED <<now, store, denied, clean, reported, refreshed, writes, tokvars, cachevars, proxyvars, inflight>>

ListPage(G, P, F, R, T) ==
    \E g \in G, ps \in P, f \in F, r \in R, t \in T :
        LET rq == Request("ListPage", g, ps, f, t, r)
        IN  ListPage_returns(rq, Serve(rq, ListPage_args(rq), store, denied, now, FALSE))

ListRefresh_returns(rq, out) ==
    /\ req' = rq
    /\ resp' = out.resp
    /\ IF out.resp.err = OK
       THEN /\ tok' = out.tok
            /\ run' = UpdateKeys(out.resp.items)
            /\ clean' = TRUE
            /\ reported' = reported \cup out.resp.deletedIds
            /\ refreshed' = refreshed \cup Range(UpdateKeys(out.resp.items))
       ELSE UNCHANGED <<tok, run, clean, reported, refreshed>>
    /\ UNCHANGED <<now, store, denied, writes, tokvars, cachevars, proxyvars, inflight>>

ListRefresh(G, P, F, R, T) ==
    \E g \in G, ps \in P, f \in F, r \in R, t \in T, listDeleted \in BOOLEAN :
        LET rq == Request("ListRefresh", g, ps, f, t, r)
        IN  ListRefresh_returns(rq,
                Serve(rq, ListRefresh_args(rq), store, denied, now, listDeleted))

ListRefreshPage_returns(rq, out) ==
    /\ req' = rq
    /\ resp' = out.resp
    /\ IF out.resp.err = OK
       THEN /\ tok' = out.tok
            /\ run' = IF clean THEN run \o UpdateKeys(out.resp.items) ELSE <<>>
            /\ reported' = reported \cup out.resp.deletedIds
            /\ refreshed' = refreshed \cup Range(UpdateKeys(out.resp.items))
       ELSE UNCHANGED <<tok, run, reported, refreshed>>
    /\ UNCHANGED <<now, store, denied, clean, writes, tokvars, cachevars, proxyvars, inflight>>

ListRefreshPage(G, P, F, R, T) ==
    \E g \in G, ps \in P, f \in F, r \in R, t \in T, listDeleted \in BOOLEAN :
        LET rq == Request("ListRefreshPage", g, ps, f, t, r)
        IN  ListRefreshPage_returns(rq,
                Serve(rq, ListRefreshPage_args(rq), store, denied, now, listDeleted))

(* History kept across a write of row i: the request in progress is over, *)
(* the run is no longer free of writes, and what was returned for row i   *)
(* is out of date.                                                        *)
Written(i) ==
    /\ writes < MaxWrites
    /\ writes' = writes + 1
    /\ req' = NoRequest
    /\ resp' = NoResponse
    /\ run' = <<>>
    /\ clean' = FALSE
    /\ refreshed' = {k \in refreshed : k.id # i}

CreateTarget ==
    \E i \in Ids :
        /\ store[i].st = "absent"
        /\ store' = [store EXCEPT ![i] =
                        [st |-> "present", createTime |-> now,
                         updateTime |-> now, deleteTime |-> 0]]
        /\ Written(i)
        /\ UNCHANGED <<now, denied, tok, reported, tokvars, cachevars, proxyvars, inflight>>

UpdateTarget ==
    \E i \in Ids :
        /\ store[i].st = "present"
        /\ store[i].updateTime < now
        /\ store' = [store EXCEPT ![i].updateTime = now]
        /\ Written(i)
        /\ UNCHANGED <<now, denied, tok, reported, tokvars, cachevars, proxyvars, inflight>>

DeleteTarget ==
    \E i \in Ids :
        /\ store[i].st = "present"
        /\ store' = [store EXCEPT ![i] =
                        [st |-> "deleted", createTime |-> 0,
                         updateTime |-> 0, deleteTime |-> now]]
        /\ Written(i)
        /\ UNCHANGED <<now, denied, tok, reported, tokvars, cachevars, proxyvars, inflight>>

Tick ==
    /\ now < MaxTime
    /\ now' = now + 1
    /\ req' = NoRequest
    /\ resp' = NoResponse
    /\ UNCHANGED <<store, denied, tok, run, clean, reported, refreshed, writes, tokvars, cachevars, proxyvars, inflight>>

----------------------------------------------------------------------------
(* Specification of the list protocol: one client that passes valid        *)
(* arguments and the token of its last response, and concurrent writers.   *)

GrantsHashes == {<<1>>}
PageSizes == {1, 2}
DeniedSets == {{}, {1}}

Empty == 0

NoCacheCall ==
    [op |-> "none", addr |-> Empty, tokenName |-> Empty, keyringType |-> Empty,
     authTokId |-> Empty, update |-> FALSE, err |-> OK, ret |-> Empty,
     tried |-> <<>>, failed |-> {}]

(* The values of a proxy that was not constructed. *)
NoProxy ==
    [expiration |-> 0, callerConnectionsLeftCh |-> FALSE, cancelled |-> FALSE,
     listener |-> "nil", addr |-> Empty, connectionsLeft |-> 0, connWg |-> 0,
     listenerCloseOnce |-> FALSE, closes |-> 0, cachedListenerAddrPort |-> Empty,
     teardowns |-> 0, decided |-> "none"]

NoTasks ==
    [start |-> "new", retErr |-> FALSE, accept |-> "none", err |-> "none",
     budget |-> "none", connsLeft |-> -1, conns |-> <<>>]

NoListenerAddr == [pc |-> "idle", ctx |-> "nil", ret |-> Empty, polled |-> FALSE]

(* No cache call runs concurrently with another. *)
NoInflight == [db0 |-> 0, ops |-> <<>>, pc |-> <<>>, listed |-> <<>>]

InitNoInflight == inflight = NoInflight

InitNoProxy ==
    /\ proxy = NoProxy
    /\ task = NoTasks
    /\ la = NoListenerAddr

InitNoCache ==
    /\ cache_user = {}
    /\ cache_stored_token = {}
    /\ cache_target = {}
    /\ keyring = {}
    /\ call = NoCacheCall
    /\ ncalls = 0

InitListWith(d, st) ==
    /\ store = st
    /\ denied = d
    /\ tok = NilToken
    /\ req = NoRequest
    /\ resp = NoResponse
    /\ run = <<>>
    /\ clean = TRUE
    /\ reported = {}
    /\ refreshed = {}
    /\ writes = 0

InitNoToken ==
    /\ tk = NilToken
    /\ tlast = [op |-> "none"]

Init ==
    /\ now = 0
    /\ InitNoToken
    /\ InitNoCache
    /\ InitNoProxy
    /\ InitNoInflight
    /\ \E d \in DeniedSets : InitListWith(d, [i \in Ids |-> AbsentRow])

Next ==
    \/ List(GrantsHashes, PageSizes, {"fn"}, {"repo"})
    \/ /\ tok.Subtype.kind = PaginationKind
       /\ ListPage(GrantsHashes, PageSizes, {"fn"}, {"repo"}, {tok})
    \/ /\ tok.Subtype.kind = StartRefreshKind
       /\ ListRefresh(GrantsHashes, PageSizes, {"fn"}, {"repo"}, {tok})
    \/ /\ tok.Subtype.kind = RefreshKind
       /\ ListRefreshPage(GrantsHashes, PageSizes, {"fn"}, {"repo"}, {tok})
    \/ CreateTarget
    \/ UpdateTarget
    \/ DeleteTarget
    \/ Tick

Spec == Init /\ [][Next]_vars

----------------------------------------------------------------------------
(* Specification of the argument checks: a client that passes any         *)
(* combination of arguments, over a table that does not change.           *)

ArgGrantsHashes == {<<>>, <<1>>, <<2>>}
ArgPageSizes == {0, 1, 2}
ArgFilters == {"nil", "fn"}
ArgRepos == {"nil", "repo"}

Populated(k) ==
    [i \in Ids |->
        IF i <= k
        THEN [st |-> "present", createTime |-> 0, updateTime |-> 0, deleteTime |-> 0]
        ELSE AbsentRow]

InitArgs ==
    /\ now = 0
    /\ InitNoToken
    /\ InitNoCache
    /\ InitNoProxy
    /\ InitNoInflight
    /\ \E k \in 0..MaxItems : InitListWith({}, Populated(k))

NextArgs ==
    \/ List(ArgGrantsHashes, ArgPageSizes, ArgFilters, ArgRepos)
    \/ ListPage(ArgGrantsHashes, ArgPageSizes, ArgFilters, ArgRepos, {NilToken, tok})
    \/ ListRefresh(ArgGrantsHashes, ArgPageSizes, ArgFilters, ArgRepos, {NilToken, tok})
    \/ ListRefreshPage(ArgGrantsHashes, ArgPageSizes, ArgFilters, ArgRepos, {NilToken, tok})

SpecArgs == InitArgs /\ [][NextArgs]_vars

----------------------------------------------------------------------------
(* Token specification: Transition and Validate applied to every token    *)
(* over a small set of field values.                                       *)

TokNow == ThirtyDays + 2
TokTimes == {TokNow - ThirtyDays - 1, TokNow - ThirtyDays, TokNow, TokNow + 1}
TokFieldTimes == {TokNow - ThirtyDays, TokNow, TokNow + 1}
TokIds == {EmptyId, 1}
TokTypes == {"target", "scope"}
TokHashes == {<<>>, <<1>>, <<2>>}

TokSubtypes ==
    {PaginationToken(i, c) : i \in TokIds, c \in TokFieldTimes}
    \cup {StartRefreshToken(u, d) : u \in TokFieldTimes, d \in TokFieldTimes}
    \cup {RefreshToken(u, l, d, i, lu) :
            u \in TokFieldTimes, l \in TokFieldTimes, d \in TokFieldTimes,
            i \in TokIds, lu \in TokFieldTimes}

TokTokens ==
    {Token(c, ty, g, st) :
        c \in TokTimes, ty \in TokTypes, g \in TokHashes, st \in TokSubtypes}

TokItems ==
    {[publicId |-> i, createTime |-> c, updateTime |-> TokNow, resourceType |-> "target"] :
        i \in {2}, c \in {TokNow - ThirtyDays, TokNow}}

TokArgTimes == {TokNow - ThirtyDays, TokNow}

NoCall ==
    [op |-> "none", prev |-> NilToken, completeListing |-> FALSE,
     lastItem |-> NilItem, deletedIdsTime |-> 0, listTime |-> 0,
     expectedResourceType |-> "unknown", expectedGrantsHash |-> <<>>, err |-> OK]

InitToken ==
    /\ now = TokNow
    /\ tk \in TokTokens
    /\ tlast = NoCall
    /\ InitNoCache
    /\ InitNoProxy
    /\ InitNoInflight
    /\ InitListWith({}, [i \in Ids |-> AbsentRow])

TransitionStep ==
    \E completeListing \in BOOLEAN, lastItem \in TokItems,
       deletedIdsTime \in TokArgTimes, listTime \in TokArgTimes :
        /\ tk' = Transition(tk, completeListing, lastItem, deletedIdsTime, listTime)
        /\ tlast' = [NoCall EXCEPT !.op = "Transition", !.prev = tk,
                        !.completeListing = completeListing,
                        !.lastItem = lastItem,
                        !.deletedIdsTime = deletedIdsTime,
                        !.listTime = listTime,
                        !.err = TransitionErr(tk)]
        /\ UNCHANGED <<now, listvars, cachevars, proxyvars, inflight>>

ValidateStep ==
    \E typ \in TokTypes, g \in {<<>>, <<1>>} :
        /\ tlast' = [NoCall EXCEPT !.op = "Validate", !.prev = tk,
                        !.expectedResourceType = typ,
                        !.expectedGrantsHash = g,
                        !.err = Validate(tk, now, typ, g)]
        /\ UNCHANGED <<tk, now, listvars, cachevars, proxyvars, inflight>>

NextToken == TransitionStep \/ ValidateStep

SpecToken == InitToken /\ [][NextToken]_vars

----------------------------------------------------------------------------
(* Claims on the token state machine (specification SpecToken) *)

TransitionedFrom(kind) ==
    /\ tlast.op = "Transition"
    /\ tlast.prev.Subtype.kind = kind

\* C1: Transition on a StartRefresh token: not complete, it becomes a Refresh
\* token with upper bound = list time, lower bound = the old previous phase
\* upper bound, previous deleted ids time = deleted ids time and the last
\* item's id and update time; complete, it stays StartRefresh with previous
\* phase upper bound = list time and previous deleted ids time = deleted ids
\* time.
C1_StartRefreshTransition ==
    TransitionedFrom(StartRefreshKind) =>
        /\ tlast.err = OK
        /\ tk.Subtype =
             IF tlast.completeListing
             THEN StartRefreshToken(tlast.listTime, tlast.deletedIdsTime)
             ELSE RefreshToken(tlast.listTime,
                               tlast.prev.Subtype.PreviousPhaseUpperBound,
                               tlast.deletedIdsTime,
                               tlast.lastItem.publicId,
                               tlast.lastItem.updateTime)

C1_Witness ==
    /\ TransitionedFrom(StartRefreshKind)
    /\ tlast.completeListing
    /\ tlast.listTime # tlast.deletedIdsTime
    /\ tk.Subtype.kind = StartRefreshKind
    /\ tk.Subtype.PreviousPhaseUpperBound = tlast.listTime

\* C2: Transition on a Refresh token: not complete, it stays Refresh with
\* both phase bounds unchanged and previous deleted ids time and last item
\* replaced by the given values; complete, it becomes StartRefresh with
\* previous phase upper bound = the current phase upper bound and previous
\* deleted ids time = deleted ids time.
C2_RefreshTransition ==
    TransitionedFrom(RefreshKind) =>
        /\ tlast.err = OK
        /\ tk.Subtype =
             IF tlast.completeListing
             THEN StartRefreshToken(tlast.prev.Subtype.PhaseUpperBound,
                                    tlast.deletedIdsTime)
             ELSE RefreshToken(tlast.prev.Subtype.PhaseUpperBound,
                               tlast.prev.Subtype.PhaseLowerBound,
                               tlast.deletedIdsTime,
                               tlast.lastItem.publicId,
                               tlast.lastItem.updateTime)

C2_Witness ==
    /\ TransitionedFrom(RefreshKind)
    /\ tlast.completeListing
    /\ tlast.prev.Subtype.PhaseUpperBound # tlast.listTime
    /\ tk.Subtype.kind = StartRefreshKind
    /\ tk.Subtype.PreviousPhaseUpperBound = tlast.prev.Subtype.PhaseUpperBound

\* C3: Transition on a Pagination token: not complete, it stays Pagination
\* with last item id and last item create time of the given last item;
\* complete, it becomes StartRefresh with previous phase upper bound and
\* previous deleted ids time both equal to the token's create time, whatever
\* list time and deleted ids time were passed.
C3_PaginationTransition ==
    TransitionedFrom(PaginationKind) =>
        /\ tlast.err = OK
        /\ tk.Subtype =
             IF tlast.completeListing
             THEN StartRefreshToken(tlast.prev.CreateTime, tlast.prev.CreateTime)
             ELSE PaginationToken(tlast.lastItem.publicId,
                                  tlast.lastItem.createTime)

C3_Witness ==
    /\ TransitionedFrom(PaginationKind)
    /\ tlast.completeListing
    /\ tlast.listTime # tlast.prev.CreateTime
    /\ tlast.deletedIdsTime # tlast.prev.CreateTime
    /\ tk.Subtype = StartRefreshToken(tk.CreateTime, tk.CreateTime)

InRange(x, lo, hi) == lo <= x /\ x <= hi

\* C5: Validate accepts a token only if its create time lies in
\* [now - 30 days, now] and its resource kind is the expected one; a Refresh
\* token also needs create time <= lower bound <= upper bound <= now,
\* previous deleted ids time in [create time, now], a non-empty last item id
\* and last item update time in [create time, now]; a StartRefresh token
\* needs both timestamps in [create time, now].  Every rejection is
\* InvalidParameter.
C5_ValidateAccepts ==
    tlast.op = "Validate" =>
        /\ tlast.err \in {OK, InvalidParameter}
        /\ tlast.err = OK =>
            /\ InRange(tk.CreateTime, now - ThirtyDays, now)
            /\ tk.ResourceType = tlast.expectedResourceType
            /\ tk.Subtype.kind = RefreshKind =>
                /\ tk.CreateTime <= tk.Subtype.PhaseLowerBound
                /\ tk.Subtype.PhaseLowerBound <= tk.Subtype.PhaseUpperBound
                /\ tk.Subtype.PhaseUpperBound <= now
                /\ InRange(tk.Subtype.PreviousDeletedIdsTime, tk.CreateTime, now)
                /\ tk.Subtype.LastItemId # EmptyId
                /\ InRange(tk.Subtype.LastItemUpdateTime, tk.CreateTime, now)
            /\ tk.Subtype.kind = StartRefreshKind =>
                /\ InRange(tk.Subtype.PreviousPhaseUpperBound, tk.CreateTime, now)
                /\ InRange(tk.Subtype.PreviousDeletedIdsTime, tk.CreateTime, now)

C5_Witness ==
    /\ tlast.op = "Validate"
    /\ tlast.err = OK
    /\ tk.Subtype.kind = RefreshKind
    /\ tk.CreateTime = now - ThirtyDays
    /\ tk.Subtype.PhaseLowerBound < tk.Subtype.PhaseUpperBound

----------------------------------------------------------------------------
(* Claims on the list protocol *)

RefreshOps == {"ListRefresh", "ListRefreshPage"}
ContinuationOps == {"ListPage", "ListRefresh", "ListRefreshPage"}

\* C4: every Refresh token returned has phase lower bound <= phase upper
\* bound, and both bounds lie between the token's create time and now.
C4_RefreshBounds ==
    tok.Subtype.kind = RefreshKind =>
        /\ tok.CreateTime <= tok.Subtype.PhaseLowerBound
        /\ tok.Subtype.PhaseLowerBound <= tok.Subtype.PhaseUpperBound
        /\ tok.Subtype.PhaseUpperBound <= now

C4_Witness ==
    /\ tok.Subtype.kind = RefreshKind
    /\ req.op = "ListRefresh"
    /\ resp.err = OK
    /\ tok.Subtype.PhaseLowerBound < tok.Subtype.PhaseUpperBound

\* C6: a continuation request that presents a token whose grants hash is
\* not the one the caller passes fails with InvalidParameter: the token is
\* not transitioned, no item is returned and the source is not read.
C6_GrantsHashMismatch ==
    (/\ req.op \in ContinuationOps
     /\ req.tok # NilToken
     /\ req.tok.GrantsHash # req.grantsHash) =>
        /\ resp.err = InvalidParameter
        /\ resp.items = <<>>
        /\ resp.scanCalls = 0
        /\ tok = req.tok

C6_Witness ==
    /\ req.op = "ListPage"
    /\ req.tok.Subtype.kind = PaginationKind
    /\ req.tok.GrantsHash = <<1>>
    /\ req.grantsHash = <<2>>
    /\ req.pageSize = 1
    /\ req.filterItemFn = "fn"
    /\ req.repo = "repo"
    /\ resp.err = InvalidParameter

InvalidArguments(rq) ==
    /\ rq.op # "none"
    /\ \/ Len(rq.grantsHash) = 0
       \/ rq.pageSize < 1
       \/ rq.filterItemFn = "nil"
       \/ rq.repo = "nil"
       \/ /\ rq.op \in ContinuationOps
          /\ \/ rq.tok = NilToken
             \/ rq.tok.Subtype.kind # RequiredSubtype(rq.op)

\* C7: every list entry point answers InvalidParameter, without one call of
\* the scan source, to an empty grants hash, a page size below 1, a nil
\* filter, a nil repository and, for a continuation, a nil token or a token
\* of another subtype than the entry point's.
C7_InvalidArguments ==
    InvalidArguments(req) =>
        /\ resp.err = InvalidParameter
        /\ resp.scanCalls = 0
        /\ resp.items = <<>>

C7_Witness ==
    /\ req.op = "ListPage"
    /\ req.tok.Subtype.kind = PaginationKind
    /\ req.grantsHash = req.tok.GrantsHash
    /\ req.pageSize = 1
    /\ req.filterItemFn = "fn"
    /\ req.repo = "nil"
    /\ resp.err = InvalidParameter

(* y comes strictly after x in the scan order: time descending, then id    *)
(* ascending.                                                              *)
StrictlyAfter(x, y) == y.t < x.t \/ (y.t = x.t /\ y.id > x.id)

\* C8: in a run of List and ListPage calls (or of ListRefresh and
\* ListRefreshPage calls) with no write in between, each returned item
\* comes strictly after the one returned before it in the scan order.
C8_MonotoneCursor ==
    clean => \A k \in 1..(Len(run) - 1) : StrictlyAfter(run[k], run[k + 1])

\* C9: the lower bound of a refresh phase is the upper bound of the phase
\* before it, a finished phase hands its upper bound on, and because the
\* scan starts the slack below that bound, every visible item written since
\* the token was issued and before the slack of the last finished phase
\* has been returned by a refresh of the token.
C9_NoGaps ==
    /\ (req.op = "ListRefresh" /\ resp.err = OK /\ tok.Subtype.kind = RefreshKind) =>
            tok.Subtype.PhaseLowerBound = req.tok.Subtype.PreviousPhaseUpperBound
    /\ (req.op = "ListRefreshPage" /\ resp.err = OK /\ tok.Subtype.kind = StartRefreshKind) =>
            tok.Subtype.PreviousPhaseUpperBound = req.tok.Subtype.PhaseUpperBound
    /\ tok.Subtype.kind = StartRefreshKind =>
            \A x \in Rows(store) :
                (/\ x.publicId \notin denied
                 /\ tok.CreateTime <= x.updateTime
                 /\ x.updateTime <= tok.Subtype.PreviousPhaseUpperBound - DatabaseReadTimeout)
                => [t |-> x.updateTime, id |-> x.publicId] \in refreshed

\* C10: a refresh response that lists the deleted ids lists every id
\* deleted since the token's previous deleted ids time minus the read
\* timeout; every finished refresh phase lists them; so every id deleted
\* since the token was issued has been reported, possibly more than once.
C10_DeletedIdsReported ==
    (req.op \in RefreshOps /\ resp.err = OK) =>
        /\ resp.completeListing => resp.listedDeleted
        /\ resp.listedDeleted =>
            /\ resp.deletedIds =
                 {i \in Ids : /\ store[i].st = "deleted"
                              /\ store[i].deleteTime >=
                                   req.tok.Subtype.PreviousDeletedIdsTime - DatabaseReadTimeout}
            /\ \A i \in Ids :
                 (store[i].st = "deleted" /\ store[i].deleteTime >= tok.CreateTime)
                 => i \in reported

C10_Witness ==
    /\ req.op \in RefreshOps
    /\ resp.err = OK
    /\ \E i \in resp.deletedIds :
         /\ store[i].deleteTime >= tok.CreateTime
         /\ store[i].deleteTime < req.tok.Subtype.PreviousDeletedIdsTime

(* Every row the scan source yields for a request when it is asked for     *)
(* pages of limit rows, each after the last row of the page before, until  *)
(* a page comes back short.                                                *)
RECURSIVE scan(_, _, _, _, _)
scan_page(op, t, rows, limit, page) ==
    IF Len(page) < limit
    THEN page
    ELSE page \o scan(op, t, rows, limit, page[Len(page)])

scan(op, t, rows, limit, lastItem) ==
    scan_page(op, t, rows, limit, listItemsFn(op, t, rows, lastItem, limit))

Accepted(rq) ==
    SelectSeq(scan(rq.op, rq.tok, Rows(store), rq.pageSize + 1, NilItem),
              LAMBDA x : x.publicId \notin denied)

\* C11: a list response holds at most page-size items, and exactly
\* page-size items when complete-listing is false, whatever the filter
\* rejects: the items are the first page-size rows the filter accepts among
\* the rows the source yields in pages of page-size + 1, and
\* complete-listing is true exactly when the source has no accepted row
\* beyond them.
C11_PageSize ==
    (req.op # "none" /\ resp.err = OK) =>
        /\ Len(resp.items) <= req.pageSize
        /\ ~resp.completeListing => Len(resp.items) = req.pageSize
        /\ resp.completeListing <=> Len(Accepted(req)) <= req.pageSize
        /\ resp.items = SubSeq(Accepted(req), 1, Min(req.pageSize, Len(Accepted(req))))

C11_Witness ==
    /\ req.op = "List"
    /\ resp.err = OK
    /\ ~resp.completeListing
    /\ resp.scanCalls >= 3
    /\ Len(resp.items) = req.pageSize
    /\ \E x \in Rows(store) : x.publicId \in denied

----------------------------------------------------------------------------
(* Daemon cache (internal/daemon/cache): the tables cache_user,            *)
(* cache_stored_token and cache_target of the embedded store and the       *)
(* repository calls on them.  Strings are integers, Empty is "".  The      *)
(* clock counts the units of the list protocol (2.5 s), so the 36 hours    *)
(* of staleness are 36*3600/2.5 units.  A database is the record of the    *)
(* three tables; a call is one action, made of the statements it runs.     *)

personaLimit == 50
personaStalenessLimit == 51840

RecordNotFound == "RecordNotFound"

User(boundaryAddr, userId) == [BoundaryAddr |-> boundaryAddr, UserId |-> userId]

storedToken(keyringType, tokenName, boundaryAddr, userId, authTokenId, lastAccessedTime) ==
    [KeyringType |-> keyringType, TokenName |-> tokenName,
     BoundaryAddr |-> boundaryAddr, UserId |-> userId,
     AuthTokenId |-> authTokenId, LastAccessedTime |-> lastAccessedTime]

CacheTarget(boundaryAddr, boundaryUserId, id, item) ==
    [BoundaryAddr |-> boundaryAddr, BoundaryUserId |-> boundaryUserId,
     Id |-> id, Item |-> item]

Key(keyringType, tokenName) == [KeyringType |-> keyringType, TokenName |-> tokenName]
KeyOf(st) == Key(st.KeyringType, st.TokenName)
UserOf(st) == User(st.BoundaryAddr, st.UserId)
TargetUser(t) == User(t.BoundaryAddr, t.BoundaryUserId)

(* The token of the external keyring: the auth token id and the user id    *)
(* follow the token name, the token itself both names.                     *)
NilAuthToken == [Id |-> Empty, UserId |-> Empty, Token |-> <<>>]

tokenLookupFn(kr, keyringType, tokenName) ==
    IF Key(keyringType, tokenName) \in kr
    THEN [Id |-> tokenName, UserId |-> tokenName, Token |-> <<tokenName, keyringType>>]
    ELSE NilAuthToken

Database == [user |-> cache_user, token |-> cache_stored_token, target |-> cache_target]

(* Faulty variant: the delete does not cascade. *)
DeleteUsers_NoCascade(db, us) == [db EXCEPT !.user = @ \ us]

(* delete from cache_user, with the on delete cascade of both references *)
DeleteUsers(db, us) ==
    [user |-> db.user \ us,
     token |-> {t \in db.token : UserOf(t) \notin us},
     target |-> {t \in db.target : TargetUser(t) \notin us}]

(* Faulty variant: orphaned users are kept. *)
cleanupOrphanedUsers_Keep(db) == db

cleanupOrphanedUsers(db) ==
    DeleteUsers(db, {u \in db.user : \A t \in db.token : UserOf(t) # u})

(* create with on conflict (boundary_addr, user_id) do update *)
createUser(db, u) == [db EXCEPT !.user = @ \cup {u}]

(* Faulty variant: the conflict target of the stored token is the whole row. *)
createStoredToken_AnyRow(db, st) == [db EXCEPT !.token = @ \cup {st}]

(* create with on conflict (keyring_type, token_name) do update *)
createStoredToken(db, st) ==
    [db EXCEPT !.token = {t \in @ : KeyOf(t) # KeyOf(st)} \cup {st}]

(* Faulty variant: the most recently accessed tokens. *)
Newest(tokens) ==
    {t \in tokens : \A p \in tokens : t.LastAccessedTime >= p.LastAccessedTime}

(* The tokens the scan of AddStoredToken can end on: the order of the     *)
(* rows is not specified, the first of the least recently accessed wins.  *)
Oldest(tokens) ==
    {t \in tokens : \A p \in tokens : ~(t.LastAccessedTime > p.LastAccessedTime)}

AddStoredToken_evict(db, oldestToken) ==
    IF Cardinality(db.token) <= personaLimit
    THEN db
    ELSE [db EXCEPT !.token = @ \ {oldestToken}]

AddStoredToken_err(kr, bAddr, tokenName, keyringType, authTokId) ==
    IF tokenName = Empty \/ keyringType = Empty \/ bAddr = Empty
    THEN InvalidParameter
    ELSE IF tokenLookupFn(kr, keyringType, tokenName) = NilAuthToken
    THEN InvalidParameter
    ELSE IF authTokId # tokenLookupFn(kr, keyringType, tokenName).Id
    THEN InvalidParameter
    ELSE OK

AddStoredToken_tx(db, bAddr, at, st) ==
    createStoredToken(createUser(db, User(bAddr, at.UserId)), st)

AddStoredToken_token(bAddr, tokenName, keyringType, at, t) ==
    storedToken(keyringType, tokenName, bAddr, at.UserId, at.Id, t)

CacheCall(op) == [NoCacheCall EXCEPT !.op = op]

Stored(db) ==
    /\ cache_user' = db.user
    /\ cache_stored_token' = db.token
    /\ cache_target' = db.target

MaxCalls == 3

Called(c) ==
    /\ ncalls < MaxCalls
    /\ ncalls' = ncalls + 1
    /\ call' = c
    /\ UNCHANGED <<tokvars, listvars, proxyvars, inflight>>

AddStoredToken_stored(upserted) ==
    \E oldestToken \in Oldest(upserted.token) :
        Stored(cleanupOrphanedUsers(AddStoredToken_evict(upserted, oldestToken)))

AddStoredToken_call(bAddr, tokenName, keyringType, authTokId) ==
        /\ Called([CacheCall("AddStoredToken") EXCEPT
                      !.addr = bAddr, !.tokenName = tokenName,
                      !.keyringType = keyringType, !.authTokId = authTokId,
                      !.err = AddStoredToken_err(keyring, bAddr, tokenName,
                                                 keyringType, authTokId)])
        /\ IF AddStoredToken_err(keyring, bAddr, tokenName, keyringType, authTokId) # OK
           THEN UNCHANGED <<cache_user, cache_stored_token, cache_target>>
           ELSE AddStoredToken_stored(
                    AddStoredToken_tx(Database, bAddr,
                        tokenLookupFn(keyring, keyringType, tokenName),
                        AddStoredToken_token(bAddr, tokenName, keyringType,
                            tokenLookupFn(keyring, keyringType, tokenName), now)))
        /\ UNCHANGED <<now, keyring>>

(* Args: tuples of boundary address, token name, keyring type, auth token id *)
AddStoredToken(Args) ==
    \E a \in Args : AddStoredToken_call(a[1], a[2], a[3], a[4])

LookupById(db, keyringType, tokenName) ==
    {p \in db.token : KeyOf(p) = Key(keyringType, tokenName)}

(* Faulty variant: the boundary address of the row is not compared. *)
lookupStoredAuthToken_AnyAddr(db, addr, tokenName, keyringType) ==
    LookupById(db, keyringType, tokenName)

(* The row lookupStoredAuthToken returns, as a set: empty for nil. *)
lookupStoredAuthToken(db, addr, tokenName, keyringType) ==
    {p \in LookupById(db, keyringType, tokenName) : p.BoundaryAddr = addr}

lookupStoredAuthToken_err(addr, tokenName, keyringType) ==
    IF addr = Empty \/ keyringType = Empty \/ tokenName = Empty
    THEN InvalidParameter
    ELSE OK

lookupStoredAuthToken_update(db, found, t) ==
    [db EXCEPT !.token =
        {IF p \in found THEN [p EXCEPT !.LastAccessedTime = t] ELSE p : p \in @}]

AuthTokenId(found) ==
    IF found = {} THEN Empty ELSE (CHOOSE p \in found : TRUE).AuthTokenId

LookupStoredAuthTokenId_returns(db, c, found) ==
    /\ Called([c EXCEPT !.err = lookupStoredAuthToken_err(c.addr, c.tokenName, c.keyringType),
                        !.ret = IF lookupStoredAuthToken_err(c.addr, c.tokenName,
                                                             c.keyringType) = OK
                                THEN AuthTokenId(found) ELSE Empty])
    /\ IF lookupStoredAuthToken_err(c.addr, c.tokenName, c.keyringType) = OK /\ c.update
       THEN Stored(lookupStoredAuthToken_update(db, found, now))
       ELSE UNCHANGED <<cache_user, cache_stored_token, cache_target>>
    /\ UNCHANGED <<now, keyring>>

(* Args: tuples of address, token name, keyring type *)
LookupStoredAuthTokenId(Args) ==
    \E a \in Args, withUpdateLastAccessedTime \in BOOLEAN :
        LookupStoredAuthTokenId_returns(Database,
            [CacheCall("LookupStoredAuthTokenId") EXCEPT
                !.addr = a[1], !.tokenName = a[2], !.keyringType = a[3],
                !.update = withUpdateLastAccessedTime],
            lookupStoredAuthToken(Database, a[1], a[2], a[3]))

deleteStoredToken_err(db, tokenName, keyringType) ==
    IF tokenName = Empty \/ keyringType = Empty
    THEN InvalidParameter
    ELSE IF LookupById(db, keyringType, tokenName) = {}
    THEN RecordNotFound
    ELSE OK

(* Faulty variant: the delete matches the token name alone. *)
deleteStoredToken_ByName(db, tokenName, keyringType) ==
    IF tokenName = Empty \/ keyringType = Empty
    THEN db
    ELSE cleanupOrphanedUsers(
             [db EXCEPT !.token = {p \in @ : p.TokenName # tokenName}])

(* The database deleteStoredToken leaves: the delete by primary key and   *)
(* the deferred cleanup, neither of them when the arguments are rejected.  *)
deleteStoredToken(db, tokenName, keyringType) ==
    IF tokenName = Empty \/ keyringType = Empty
    THEN db
    ELSE cleanupOrphanedUsers(
             [db EXCEPT !.token = @ \ LookupById(db, keyringType, tokenName)])

(* Args: tuples of token name, keyring type *)
DeleteStoredToken(Args) ==
    \E a \in Args :
        /\ Called([CacheCall("deleteStoredToken") EXCEPT
                      !.tokenName = a[1], !.keyringType = a[2],
                      !.err = deleteStoredToken_err(Database, a[1], a[2])])
        /\ Stored(deleteStoredToken(Database, a[1], a[2]))
        /\ UNCHANGED <<now, keyring>>

(* Faulty variant: a token exactly as old as the limit is stale. *)
Stale_Inclusive(tokens, t) ==
    {p \in tokens : p.LastAccessedTime <= t - personaStalenessLimit}

(* where last_accessed_time < time.Now().Add(-personaStalenessLimit) *)
Stale(tokens, t) ==
    {p \in tokens : p.LastAccessedTime < t - personaStalenessLimit}

removeStaleStoredTokens(db, t) ==
    cleanupOrphanedUsers([db EXCEPT !.token = @ \ Stale(@, t)])

RemoveStaleStoredTokens ==
    /\ Called(CacheCall("removeStaleStoredTokens"))
    /\ Stored(removeStaleStoredTokens(Database, now))
    /\ UNCHANGED <<now, keyring>>

----------------------------------------------------------------------------
(* Specification of the token cache: a cache that holds no token, or one   *)
(* token short of the limit, or as many as the limit, each of its tokens   *)
(* added at an instant of its own; then calls on a few keys and a clock    *)
(* that passes the staleness limit.                                        *)

Fillers(n) == {storedToken(1, i, 1, i, i, i) : i \in 1..n}

CacheFills == {0, personaLimit - 1, personaLimit}

CacheInstants ==
    {personaLimit, personaStalenessLimit + 2, personaStalenessLimit + personaLimit + 1}

(* The calls made: on the oldest token, on a token of its user in another *)
(* keyring, on a token the cache does not hold, on one the keyring does   *)
(* not hold, with a wrong auth token id, and with each argument empty.    *)
CacheLookupArgs ==
    {<<addr, k[1], k[2]>> :
        addr \in {1, 2}, k \in {<<1, 1>>, <<1, 2>>, <<personaLimit + 1, 1>>}}
    \cup {<<Empty, 1, 1>>, <<1, Empty, 1>>, <<1, 1, Empty>>}

CacheAddArgs ==
    {<<a[1], a[2], a[3], a[2]>> : a \in CacheLookupArgs}
    \cup {<<1, personaLimit + 1, 2, personaLimit + 1>>, <<1, 1, 1, personaLimit + 1>>}

CacheDeleteArgs ==
    {<<a[2], a[3]>> : a \in CacheLookupArgs}

CacheKeyring ==
    {Key(k, t) : k \in {1, 2}, t \in 1..(personaLimit + 1)} \ {Key(2, personaLimit + 1)}

CacheTick ==
    /\ \E t \in CacheInstants : t > now /\ now' = t
    /\ call' = CacheCall("Tick")
    /\ UNCHANGED <<cache_user, cache_stored_token, cache_target, keyring, ncalls,
                   tokvars, listvars, proxyvars, inflight>>

InitCache ==
    /\ now = personaLimit
    /\ InitNoToken
    /\ InitListWith({}, [i \in Ids |-> AbsentRow])
    /\ \E n \in CacheFills :
        /\ cache_stored_token = Fillers(n)
        /\ cache_user = {UserOf(p) : p \in Fillers(n)}
        /\ cache_target = {CacheTarget(UserOf(p).BoundaryAddr, UserOf(p).UserId, 1, 1) :
                              p \in Fillers(n)}
    /\ keyring = CacheKeyring
    /\ call = NoCacheCall
    /\ ncalls = 0
    /\ InitNoProxy
    /\ InitNoInflight

NextCache ==
    \/ AddStoredToken(CacheAddArgs)
    \/ LookupStoredAuthTokenId(CacheLookupArgs)
    \/ DeleteStoredToken(CacheDeleteArgs)
    \/ RemoveStaleStoredTokens
    \/ CacheTick

SpecCache == InitCache /\ [][NextCache]_vars

----------------------------------------------------------------------------
(* Claims on the token cache (specification SpecCache) *)

Added ==
    /\ call'.op = "AddStoredToken"
    /\ call'.err = OK
    /\ ncalls' = ncalls + 1

AddedKey == Key(call'.keyringType, call'.tokenName)

UpsertedRows ==
    {p \in cache_stored_token : KeyOf(p) # AddedKey}
        \cup {p \in cache_stored_token' : KeyOf(p) = AddedKey}

OldestBefore ==
    {r \in cache_stored_token :
        \A q \in cache_stored_token : r.LastAccessedTime <= q.LastAccessedTime}

\* C12: an AddStoredToken that brings the number of stored tokens over
\* personaLimit (50) removes exactly one token, and that token is the one
\* whose last accessed time was the oldest before the insertion; every
\* token accessed later than some other token, a bumped one among them,
\* survives.  An AddStoredToken that stays within the limit removes none.
C12_EvictsOldest ==
    [][Added =>
        /\ \E new \in cache_stored_token' :
              /\ KeyOf(new) = AddedKey
              /\ new.LastAccessedTime = now
        /\ Cardinality(UpsertedRows) <= personaLimit =>
              cache_stored_token' = UpsertedRows
        /\ Cardinality(UpsertedRows) > personaLimit =>
              /\ Cardinality(cache_stored_token') = Cardinality(UpsertedRows) - 1
              /\ \E r \in OldestBefore : cache_stored_token' = UpsertedRows \ {r}
              /\ \A q \in cache_stored_token :
                    (\E p \in cache_stored_token :
                        p.LastAccessedTime < q.LastAccessedTime)
                    => \E s \in cache_stored_token' : KeyOf(s) = KeyOf(q)
      ]_vars

C12_Witness ==
    /\ call.op = "AddStoredToken" /\ call.err = OK
    /\ Key(call.keyringType, call.tokenName) = Key(1, personaLimit + 1)
    /\ Cardinality(cache_stored_token) = personaLimit
    /\ \E p \in cache_stored_token :
          KeyOf(p) = Key(1, 1) /\ p.LastAccessedTime >= personaLimit
    /\ \E p \in cache_stored_token : KeyOf(p) = Key(1, personaLimit + 1)
    /\ \A p \in cache_stored_token : KeyOf(p) # Key(1, 2)

\* C13: AddStoredToken is idempotent on (keyring type, token name): a call
\* with the inputs of a token that is already stored leaves one stored
\* token row of that key and one user row of its user, adds and removes no
\* other row, and the last accessed time of the row is not earlier than it
\* was.
C13_AddIdempotent ==
    [][(Added /\ \E p \in cache_stored_token :
                    KeyOf(p) = AddedKey /\ p.BoundaryAddr = call'.addr) =>
        /\ Cardinality({s \in cache_stored_token' : KeyOf(s) = AddedKey}) = 1
        /\ {s \in cache_stored_token' : KeyOf(s) # AddedKey}
              = {p \in cache_stored_token : KeyOf(p) # AddedKey}
        /\ cache_user' = cache_user
        /\ \A s \in cache_stored_token' : KeyOf(s) = AddedKey =>
              /\ Cardinality({u \in cache_user' : u = UserOf(s)}) = 1
              /\ \A p \in cache_stored_token : KeyOf(p) = AddedKey =>
                    /\ s.LastAccessedTime >= p.LastAccessedTime
                    /\ [s EXCEPT !.LastAccessedTime = p.LastAccessedTime] = p
      ]_vars

C13_Witness ==
    /\ call.op = "AddStoredToken" /\ call.err = OK
    /\ Key(call.keyringType, call.tokenName) = Key(1, 1) /\ call.addr = 1
    /\ ncalls = 1
    /\ Cardinality(cache_stored_token) = personaLimit
    /\ Cardinality(cache_user) = personaLimit
    /\ \E p \in cache_stored_token :
          KeyOf(p) = Key(1, 1) /\ p.LastAccessedTime > 1

\* C14: after any sequence of completed AddStoredToken, deleteStoredToken
\* and removeStaleStoredTokens calls, a user row exists if and only if at
\* least one stored token references its (boundary address, user id); this
\* holds when a token is added again under another boundary address.
C14_UsersAreReferenced ==
    /\ \A u \in cache_user : \E p \in cache_stored_token : UserOf(p) = u
    /\ \A p \in cache_stored_token : UserOf(p) \in cache_user

C14_Witness ==
    /\ call.op = "AddStoredToken" /\ call.err = OK
    /\ Key(call.keyringType, call.tokenName) = Key(1, 1) /\ call.addr = 2
    /\ User(2, 1) \in cache_user
    /\ User(1, 1) \notin cache_user
    /\ User(1, 2) \in cache_user

----------------------------------------------------------------------------
(* Specification of the store: rows created and deleted directly in the    *)
(* tables of the cache schema, as the tests of the store do.               *)

ForeignKeyConstraint == "FOREIGN KEY constraint"
UniqueConstraint == "UNIQUE constraint"

StoreUsers == {User(1, 1), User(1, 2), User(2, 1)}
StoreKeys == {Key(1, 1), Key(2, 1)}
StoreTargetIds == {1}

StoreCall(op, u, err) ==
    [CacheCall(op) EXCEPT !.addr = u.BoundaryAddr, !.ret = u.UserId, !.err = err]

StoreCalled(c) ==
    /\ call' = c
    /\ UNCHANGED <<now, keyring, ncalls, tokvars, listvars, proxyvars, inflight>>

(* insert into cache_user *)
Store_CreateUser ==
    \E u \in StoreUsers :
        IF u \in cache_user
        THEN /\ StoreCalled(StoreCall("CreateUser", u, UniqueConstraint))
             /\ UNCHANGED <<cache_user, cache_stored_token, cache_target>>
        ELSE /\ StoreCalled(StoreCall("CreateUser", u, OK))
             /\ cache_user' = cache_user \cup {u}
             /\ UNCHANGED <<cache_stored_token, cache_target>>

(* insert into cache_stored_token: the user it references must exist *)
Store_CreateStoredToken ==
    \E u \in StoreUsers, k \in StoreKeys :
        IF u \notin cache_user
        THEN /\ StoreCalled(StoreCall("CreateStoredToken", u, ForeignKeyConstraint))
             /\ UNCHANGED <<cache_user, cache_stored_token, cache_target>>
        ELSE IF \E p \in cache_stored_token : KeyOf(p) = k
        THEN /\ StoreCalled(StoreCall("CreateStoredToken", u, UniqueConstraint))
             /\ UNCHANGED <<cache_user, cache_stored_token, cache_target>>
        ELSE /\ StoreCalled(StoreCall("CreateStoredToken", u, OK))
             /\ cache_stored_token' = cache_stored_token \cup
                    {storedToken(k.KeyringType, k.TokenName, u.BoundaryAddr,
                                 u.UserId, k.TokenName, now)}
             /\ UNCHANGED <<cache_user, cache_target>>

(* insert into cache_target: the user it references must exist *)
Store_CreateTarget ==
    \E u \in StoreUsers, id \in StoreTargetIds :
        IF u \notin cache_user
        THEN /\ StoreCalled(StoreCall("CreateTarget", u, ForeignKeyConstraint))
             /\ UNCHANGED <<cache_user, cache_stored_token, cache_target>>
        ELSE IF \E t \in cache_target : TargetUser(t) = u /\ t.Id = id
        THEN /\ StoreCalled(StoreCall("CreateTarget", u, UniqueConstraint))
             /\ UNCHANGED <<cache_user, cache_stored_token, cache_target>>
        ELSE /\ StoreCalled(StoreCall("CreateTarget", u, OK))
             /\ cache_target' = cache_target \cup
                    {CacheTarget(u.BoundaryAddr, u.UserId, id, 1)}
             /\ UNCHANGED <<cache_user, cache_stored_token>>

(* delete from cache_user *)
Store_DeleteUser ==
    \E u \in StoreUsers :
        /\ StoreCalled(StoreCall("DeleteUser", u,
                                 IF u \in cache_user THEN OK ELSE RecordNotFound))
        /\ Stored(DeleteUsers(Database, {u}))

(* delete from cache_target *)
Store_DeleteTarget ==
    \E u \in StoreUsers, id \in StoreTargetIds :
        /\ StoreCalled(StoreCall("DeleteTarget", u,
              IF \E t \in cache_target : TargetUser(t) = u /\ t.Id = id
              THEN OK ELSE RecordNotFound))
        /\ cache_target' = {t \in cache_target : ~(TargetUser(t) = u /\ t.Id = id)}
        /\ UNCHANGED <<cache_user, cache_stored_token>>

InitStore ==
    /\ now = 0
    /\ InitNoToken
    /\ InitNoCache
    /\ InitNoProxy
    /\ InitNoInflight
    /\ InitListWith({}, [i \in Ids |-> AbsentRow])

NextStore ==
    \/ Store_CreateUser
    \/ Store_CreateStoredToken
    \/ Store_CreateTarget
    \/ Store_DeleteUser
    \/ Store_DeleteTarget

SpecStore == InitStore /\ [][NextStore]_vars

ReferencesKept ==
    /\ \A p \in cache_stored_token : UserOf(p) \in cache_user
    /\ \A t \in cache_target : TargetUser(t) \in cache_user

\* C15: deleting a user row deletes every stored token and every cached
\* target that references the user, and no stored token and no cached
\* target exists whose (boundary address, user id) has no user row.
C15_UserCascade ==
    /\ []ReferencesKept
    /\ [][\A u \in cache_user \ cache_user' :
            /\ \A p \in cache_stored_token' : UserOf(p) # u
            /\ \A t \in cache_target' : TargetUser(t) # u
            /\ cache_stored_token' = {p \in cache_stored_token : UserOf(p) # u}
            /\ cache_target' = {t \in cache_target : TargetUser(t) # u}
         ]_vars

C15_Witness ==
    /\ call.op = "DeleteUser" /\ call.err = OK
    /\ call.addr = 1 /\ call.ret = 1
    /\ User(1, 1) \notin cache_user
    /\ cache_user # {}
    /\ cache_stored_token # {}
    /\ cache_target # {}

----------------------------------------------------------------------------
(* Claims on the token cache, continued (specification SpecCache) *)

Deleted ==
    /\ call'.op = "deleteStoredToken"
    /\ ncalls' = ncalls + 1
    /\ call'.tokenName # Empty
    /\ call'.keyringType # Empty

RowsOfCall(tokens, c) ==
    {p \in tokens : KeyOf(p) = Key(c.keyringType, c.tokenName)}

\* C16: deleteStoredToken on a (keyring type, token name) that has no row
\* fails with a not-found error and leaves the stored tokens unchanged; on
\* an existing row it succeeds, removes exactly that row and then the users
\* left without a token, and a lookup of that token made next returns
\* empty.
C16_DeleteStoredToken ==
    /\ [][Deleted =>
            IF RowsOfCall(cache_stored_token, call') = {}
            THEN /\ call'.err = RecordNotFound
                 /\ cache_stored_token' = cache_stored_token
                 /\ cache_user' = cache_user
            ELSE /\ call'.err = OK
                 /\ cache_stored_token'
                        = cache_stored_token \ RowsOfCall(cache_stored_token, call')
                 /\ Cardinality(cache_stored_token')
                        = Cardinality(cache_stored_token) - 1
                 /\ cache_user' = {UserOf(p) : p \in cache_stored_token'}
                 /\ RowsOfCall(cache_stored_token', call') = {}
         ]_vars
    /\ [][(/\ call.op = "deleteStoredToken"
           /\ call.err = OK
           /\ call'.op = "LookupStoredAuthTokenId"
           /\ call'.tokenName = call.tokenName
           /\ call'.keyringType = call.keyringType
           /\ call'.addr # Empty)
          => (call'.ret = Empty /\ call'.err = OK)
         ]_vars

C16_Witness ==
    /\ call.op = "deleteStoredToken" /\ call.err = OK
    /\ Key(call.keyringType, call.tokenName) = Key(1, 1)
    /\ ncalls = 2
    /\ User(1, 1) \notin cache_user
    /\ User(2, 1) \in cache_user
    /\ \E p \in cache_stored_token : KeyOf(p) = Key(2, 1)
    /\ Cardinality(cache_stored_token) = personaLimit - 1

\* C17: removeStaleStoredTokens deletes exactly the stored tokens whose
\* last accessed time is older than now minus personaStalenessLimit (36 h)
\* and keeps every other token, one accessed exactly 36 h ago included;
\* afterwards the users left without a token are removed.
C17_RemoveStale ==
    [][(call'.op = "removeStaleStoredTokens" /\ ncalls' = ncalls + 1) =>
        /\ \A p \in cache_stored_token :
              p \in cache_stored_token'
                  <=> ~(p.LastAccessedTime < now - personaStalenessLimit)
        /\ cache_stored_token' \subseteq cache_stored_token
        /\ cache_user' = {UserOf(p) : p \in cache_stored_token'}
        /\ call'.err = OK
      ]_vars

C17_Witness ==
    /\ call.op = "removeStaleStoredTokens"
    /\ now = personaStalenessLimit + 2
    /\ \A p \in cache_stored_token : KeyOf(p) # Key(1, 1)
    /\ \E p \in cache_stored_token : KeyOf(p) = Key(1, 2) /\ p.LastAccessedTime = 2
    /\ User(1, 1) \notin cache_user
    /\ Cardinality(cache_stored_token) = personaLimit - 1

LookedUp ==
    /\ call'.op = "LookupStoredAuthTokenId"
    /\ ncalls' = ncalls + 1
    /\ call'.addr # Empty
    /\ call'.tokenName # Empty
    /\ call'.keyringType # Empty

Hit(tokens, c) == {p \in RowsOfCall(tokens, c) : p.BoundaryAddr = c.addr}

\* C18: LookupStoredAuthTokenId returns the stored auth token id only when
\* a row exists for (keyring type, token name) and its boundary address is
\* the requested one; otherwise it returns empty with no error.  The last
\* accessed time is advanced, to now, only on a hit made with the option
\* withUpdateLastAccessedTime; a miss or an address mismatch changes
\* nothing, and no lookup changes any other row.
C18_Lookup ==
    [][LookedUp =>
        /\ call'.err = OK
        /\ Hit(cache_stored_token, call') = {} => call'.ret = Empty
        /\ \A p \in Hit(cache_stored_token, call') :
              call'.ret = p.AuthTokenId /\ call'.ret # Empty
        /\ cache_user' = cache_user
        /\ cache_target' = cache_target
        /\ IF call'.update
           THEN cache_stored_token' =
                    {IF p \in Hit(cache_stored_token, call')
                     THEN [p EXCEPT !.LastAccessedTime = now]
                     ELSE p : p \in cache_stored_token}
           ELSE cache_stored_token' = cache_stored_token
      ]_vars

C18_Witness ==
    /\ call.op = "LookupStoredAuthTokenId" /\ call.err = OK
    /\ call.update /\ call.ret = 1
    /\ call.addr = 1 /\ Key(call.keyringType, call.tokenName) = Key(1, 1)
    /\ ncalls = 1
    /\ \E p \in cache_stored_token :
          KeyOf(p) = Key(1, 1) /\ p.LastAccessedTime = now /\ now > 1

----------------------------------------------------------------------------
(* Refresh of the cached targets (repository_refresh.go) and refreshTargets *)

RemoteTarget(id, item) == [Id |-> id, Item |-> item]

(* What the target retrieval function returns for a token: an error, or   *)
(* the targets the token lists.                                            *)
RemoteError == [ok |-> FALSE, targets |-> {}]
Retrieved(targets) == [ok |-> TRUE, targets |-> targets]

(* The transaction of db.DoTx: all of its writes, or none when it fails. *)
DoTx(db, written, fails) == IF fails THEN db ELSE written

refreshTargets_err(db, u, fails) ==
    IF u.UserId = Empty \/ u.BoundaryAddr = Empty
    THEN InvalidParameter
    ELSE IF u \notin db.user
    THEN RecordNotFound
    ELSE IF fails
    THEN Internal
    ELSE OK

(* Faulty variant: the rows of the user are not deleted first. *)
refreshTargets_Append(db, u, targets, fails) ==
    IF u.UserId = Empty \/ u.BoundaryAddr = Empty \/ u \notin db.user
    THEN db
    ELSE DoTx(db,
              [db EXCEPT !.target = @ \cup
                    {CacheTarget(u.BoundaryAddr, u.UserId, t.Id, t.Item) : t \in targets}],
              fails)

refreshTargets(db, u, targets, fails) ==
    IF u.UserId = Empty \/ u.BoundaryAddr = Empty \/ u \notin db.user
    THEN db
    ELSE DoTx(db,
              [db EXCEPT !.target =
                    {t \in @ : TargetUser(t) # u} \cup
                    {CacheTarget(u.BoundaryAddr, u.UserId, t.Id, t.Item) : t \in targets}],
              fails)

RefreshTargets(Users, Snapshots) ==
    \E u \in Users, targets \in Snapshots, fails \in BOOLEAN :
        /\ Called([CacheCall("refreshTargets") EXCEPT
                      !.addr = u.BoundaryAddr, !.authTokId = u.UserId,
                      !.ret = Cardinality({t \in cache_target : TargetUser(t) = u}),
                      !.tried = <<Retrieved(targets)>>,
                      !.err = refreshTargets_err(Database, u, fails)])
        /\ Stored(refreshTargets(Database, u, targets, fails))
        /\ UNCHANGED <<now, keyring>>

KeyLess(a, b) ==
    \/ a.KeyringType < b.KeyringType
    \/ a.KeyringType = b.KeyringType /\ a.TokenName < b.TokenName

UserLess(a, b) ==
    \/ a.BoundaryAddr < b.BoundaryAddr
    \/ a.BoundaryAddr = b.BoundaryAddr /\ a.UserId < b.UserId

FirstUser(users) == CHOOSE u \in users : \A v \in users : v = u \/ UserLess(u, v)

RECURSIVE UserSeq(_)
UserSeq(users) ==
    IF users = {} THEN <<>>
    ELSE <<FirstUser(users)>> \o UserSeq(users \ {FirstUser(users)})

(* slices.SortFunc by last accessed time, then slices.Reverse: the most   *)
(* recently accessed first.  The order of tokens accessed at the same     *)
(* instant follows the order of the listing, which is either way.         *)
MostRecent(tokens, rev) ==
    CHOOSE t \in tokens : \A p \in tokens \ {t} :
        \/ t.LastAccessedTime > p.LastAccessedTime
        \/ /\ t.LastAccessedTime = p.LastAccessedTime
           /\ KeyLess(KeyOf(t), KeyOf(p)) # rev

RECURSIVE sortedTokens(_, _)
sortedTokens(tokens, rev) ==
    IF tokens = {} THEN <<>>
    ELSE <<MostRecent(tokens, rev)>>
            \o sortedTokens(tokens \ {MostRecent(tokens, rev)}, rev)

Tried(t, found, out) ==
    [key |-> KeyOf(t), user |-> UserOf(t), lastAccessedTime |-> t.LastAccessedTime,
     found |-> found, ok |-> out.ok, targets |-> out.targets]

(* Variant with a break: the loop ends at the first token that lists. *)
Refresh_next_Break(order, out) == IF out.ok THEN <<>> ELSE Tail(order)

(* The tokens the loop over the tokens of a user goes on with. *)
Refresh_next(order, out) == Tail(order)

(* The loop over the tokens of one user, l its variables: the database,   *)
(* the tokens tried, the users whose targets could not be stored,         *)
(* lookupErr and retrievedTargets.                                         *)
RECURSIVE Refresh_tokens(_, _, _, _)
Refresh_tokens(kr, remote, l, order) ==
    IF order = <<>> THEN l
    ELSE IF tokenLookupFn(kr, Head(order).KeyringType, Head(order).TokenName)
                = NilAuthToken
    THEN Refresh_tokens(kr, remote,
            [l EXCEPT !.db = deleteStoredToken(l.db, Head(order).TokenName,
                                               Head(order).KeyringType),
                      !.tried = Append(@, Tried(Head(order), FALSE, RemoteError)),
                      !.lookupErr =
                          deleteStoredToken_err(l.db, Head(order).TokenName,
                                                Head(order).KeyringType) # OK],
            Tail(order))
    ELSE IF ~remote[KeyOf(Head(order))].ok
    THEN Refresh_tokens(kr, remote,
            [l EXCEPT !.tried = Append(@, Tried(Head(order), TRUE, RemoteError)),
                      !.lookupErr = TRUE],
            Refresh_next(order, remote[KeyOf(Head(order))]))
    ELSE Refresh_tokens(kr, remote,
            [l EXCEPT !.tried = Append(@, Tried(Head(order), TRUE,
                                                remote[KeyOf(Head(order))])),
                      !.lookupErr = FALSE,
                      !.retrievedTargets = remote[KeyOf(Head(order))].targets],
            Refresh_next(order, remote[KeyOf(Head(order))]))

(* The end of the loop body of a user: retErr joins lookupErr, and the    *)
(* retrieved targets are stored.                                           *)
Refresh_stored(u, fails, l) ==
    [l EXCEPT !.db = refreshTargets(l.db, u, l.retrievedTargets, fails),
              !.retErr = @ \/ l.lookupErr
                           \/ refreshTargets_err(l.db, u, fails) # OK,
              !.failed = IF refreshTargets_err(l.db, u, fails) # OK
                         THEN @ \cup {u} ELSE @]

Refresh_user(kr, remote, failing, rev, listed, l, u) ==
    Refresh_stored(u, u \in failing,
        Refresh_tokens(kr, remote,
            [l EXCEPT !.lookupErr = FALSE, !.retrievedTargets = {}],
            sortedTokens({t \in listed : UserOf(t) = u}, rev)))

(* The loop over the users of the listed tokens.  The order of a map is   *)
(* not specified; the users are handled in the order of their names,      *)
(* since what is done for one user touches no row of another.             *)
RECURSIVE Refresh_users(_, _, _, _, _, _, _)
Refresh_users(kr, remote, failing, rev, listed, l, users) ==
    IF users = <<>> THEN l
    ELSE Refresh_users(kr, remote, failing, rev, listed,
            Refresh_user(kr, remote, failing, rev, listed, l, Head(users)),
            Tail(users))

Refresh_run(kr, remote, failing, rev, db) ==
    Refresh_users(kr, remote, failing, rev, db.token,
        [db |-> db, tried |-> <<>>, retErr |-> FALSE, failed |-> {},
         lookupErr |-> FALSE, retrievedTargets |-> {}],
        UserSeq({UserOf(t) : t \in db.token}))

Refresh_returns(l) ==
    /\ Called([CacheCall("Refresh") EXCEPT
                  !.tried = l.tried, !.failed = l.failed,
                  !.err = IF l.retErr THEN Internal ELSE OK])
    /\ Stored(l.db)
    /\ UNCHANGED <<now, keyring>>

Refresh(Users, Outcomes) ==
    \E remote \in [{KeyOf(t) : t \in cache_stored_token} -> Outcomes],
       failing \in SUBSET Users, rev \in BOOLEAN :
        Refresh_returns(
            Refresh_run(keyring, remote, failing, rev,
                        removeStaleStoredTokens(Database, now)))

(* The external keyring loses a token. *)
KeyringForget ==
    \E k \in keyring :
        /\ keyring' = keyring \ {k}
        /\ call' = CacheCall("KeyringForget")
        /\ UNCHANGED <<now, cache_user, cache_stored_token, cache_target, ncalls,
                       tokvars, listvars, proxyvars, inflight>>

----------------------------------------------------------------------------
(* Specification of the refresh: tokens of two users are added while the   *)
(* clock runs, the keyring loses tokens, and the cache is refreshed from a *)
(* remote that answers each token with an error or with a list of targets. *)

RefreshKeys == {Key(1, 1), Key(2, 1), Key(1, 2)}
RefreshUsers == {User(1, 1), User(1, 2)}
RefreshSnapshots ==
    {{RemoteTarget(1, 1)}, {RemoteTarget(1, 2), RemoteTarget(2, 1)}}
RefreshOutcomes == {RemoteError} \cup {Retrieved(s) : s \in RefreshSnapshots}

RefreshAddArgs ==
    {<<1, k.TokenName, k.KeyringType, k.TokenName>> : k \in RefreshKeys}
    \cup {<<1, 2, 2, 2>>, <<1, 1, 1, 2>>}

RefreshTargetsUsers == RefreshUsers \cup {User(Empty, 1)}

(* The tokens a cache holds when one token of each user was added. *)
RefreshFills ==
    {{}, {storedToken(1, 1, 1, 1, 1, personaLimit),
          storedToken(1, 2, 1, 2, 2, personaLimit)}}

InitRefresh ==
    /\ now = personaLimit
    /\ InitNoToken
    /\ InitListWith({}, [i \in Ids |-> AbsentRow])
    /\ \E tokens \in RefreshFills :
        /\ cache_stored_token = tokens
        /\ cache_user = {UserOf(p) : p \in tokens}
    /\ cache_target = {}
    /\ keyring = RefreshKeys
    /\ call = NoCacheCall
    /\ ncalls = 0
    /\ InitNoProxy
    /\ InitNoInflight

NextRefresh ==
    \/ AddStoredToken(RefreshAddArgs)
    \/ RefreshTargets(RefreshTargetsUsers, RefreshSnapshots)
    \/ Refresh(RefreshUsers, RefreshOutcomes)
    \/ KeyringForget
    \/ CacheTick

SpecRefresh == InitRefresh /\ [][NextRefresh]_vars

----------------------------------------------------------------------------
(* Claims on the refresh (specification SpecRefresh) *)

Refreshed ==
    /\ call'.op = "Refresh"
    /\ ncalls' = ncalls + 1

TriedOf(c, u) == {i \in 1..Len(c.tried) : c.tried[i].user = u}

Listed(c, i) == c.tried[i].found /\ c.tried[i].ok

TargetsOf(targets, u) ==
    {RemoteTarget(t.Id, t.Item) : t \in {x \in targets : TargetUser(x) = u}}

\* C19: for each user, Refresh tries the stored tokens of the user in
\* descending order of last accessed time and stops at the first token
\* whose remote list of targets succeeds: no token of the user is tried
\* after it, and the targets cached for the user are the ones that token
\* returned (or, when the store fails, the ones cached before).
C19_FirstSuccess ==
    [][Refreshed =>
        \A u \in {call'.tried[i].user : i \in 1..Len(call'.tried)} :
            \A i \in TriedOf(call', u) :
                /\ \A j \in TriedOf(call', u) :
                      i < j => /\ call'.tried[i].lastAccessedTime
                                    >= call'.tried[j].lastAccessedTime
                               /\ ~Listed(call', i)
                /\ (Listed(call', i)
                      /\ \A j \in TriedOf(call', u) : j < i => ~Listed(call', j))
                   => \/ TargetsOf(cache_target', u) = call'.tried[i].targets
                      \/ TargetsOf(cache_target', u) = TargetsOf(cache_target, u)
      ]_vars

RefreshedTargets ==
    /\ call'.op = "refreshTargets"
    /\ ncalls' = ncalls + 1

\* C20: refreshTargets replaces the cached targets of a user atomically:
\* after it succeeds the cached target rows of the user are exactly the
\* given snapshot, no row of the previous snapshot surviving, and the rows
\* of every other user are unchanged; if it fails, every cached target row
\* is as before, those of the user among them.
C20_RefreshTargetsAtomic ==
    [][RefreshedTargets =>
        IF call'.err = OK
        THEN /\ TargetsOf(cache_target', User(call'.addr, call'.authTokId))
                    = call'.tried[1].targets
             /\ {t \in cache_target' : TargetUser(t) # User(call'.addr, call'.authTokId)}
                    = {t \in cache_target :
                          TargetUser(t) # User(call'.addr, call'.authTokId)}
        ELSE cache_target' = cache_target
      ]_vars

C20_Witness ==
    /\ call.op = "refreshTargets" /\ call.err = OK
    /\ call.addr = 1 /\ call.authTokId = 1
    /\ call.ret = 2
    /\ TargetsOf(cache_target, User(1, 1)) = {RemoteTarget(1, 1)}
    /\ TargetsOf(cache_target, User(1, 2)) # {}

(* The users Refresh has to process: those of the tokens it lists. *)
RefreshedUsers ==
    {UserOf(t) : t \in removeStaleStoredTokens(Database, now).token}

(* The user obtained a list of targets from the remote and stored it. *)
Succeeded(c, u) ==
    /\ \E i \in TriedOf(c, u) : Listed(c, i)
    /\ u \notin c.failed

\* C21: a failure while refreshing one user does not stop Refresh from
\* processing the remaining users: every token-holding user is processed;
\* Refresh returns an error when a user failed (no token of the user
\* listed, or the store failed) and nil when every user obtained a target
\* list and stored it.
C21_ErrorsJoined ==
    [][Refreshed =>
        /\ {call'.tried[i].user : i \in 1..Len(call'.tried)} = RefreshedUsers
        /\ (call'.err = OK) <=> \A u \in RefreshedUsers : Succeeded(call', u)
      ]_vars

----------------------------------------------------------------------------
(* ListTargets, QueryTargets and searchTargets (part_007)                  *)

NotFound == "NotFound"

(* A query is a comparison of a field with a value, or two queries joined *)
(* by "and" or "or"; the empty string is no query.                        *)
EmptyQuery == [kind |-> "empty"]
Comparison(field, val) == [kind |-> "cmp", field |-> field, val |-> val]
Logical(op, left, right) == [kind |-> op, left |-> left, right |-> right]

(* The fields mql.Parse is told to ignore.  Target has no field           *)
(* PersonaUserId: BoundaryUserId stays a field a query may name.          *)
IgnoredFields == {"BoundaryAddr", "PersonaUserId", "Item"}

RECURSIVE QueryFields(_)
QueryFields(q) ==
    IF q.kind = "cmp" THEN {q.field}
    ELSE QueryFields(q.left) \cup QueryFields(q.right)

(* The where clause "true" of ListTargets. *)
TrueCondition == [kind |-> "true", grouped |-> FALSE]

(* mql.Parse: the where clause of a query, a logical expression within    *)
(* parentheses; an error when the query names an ignored field.           *)
RECURSIVE mql_Condition(_)
mql_Condition(q) ==
    IF q.kind = "cmp"
    THEN [kind |-> "cmp", field |-> q.field, val |-> q.val, grouped |-> FALSE]
    ELSE [kind |-> q.kind, left |-> mql_Condition(q.left),
          right |-> mql_Condition(q.right), grouped |-> TRUE]

mql_Parse(q) ==
    IF QueryFields(q) \cap IgnoredFields # {}
    THEN [err |-> InvalidParameter, Condition |-> TrueCondition]
    ELSE [err |-> OK, Condition |-> mql_Condition(q)]

Column(row, field) ==
    IF field = "Id" THEN row.Id
    ELSE IF field = "BoundaryUserId" THEN row.BoundaryUserId
    ELSE IF field = "BoundaryAddr" THEN row.BoundaryAddr
    ELSE row.Item

(* Whether a row satisfies a where clause. *)
RECURSIVE Where(_, _)
Where(c, row) ==
    IF c.kind = "true" THEN TRUE
    ELSE IF c.kind = "cmp" THEN Column(row, c.field) = c.val
    ELSE IF c.kind = "and" THEN Where(c.left, row) /\ Where(c.right, row)
    ELSE Where(c.left, row) \/ Where(c.right, row)

(* The clause "<condition> and (boundary_addr = ? and boundary_user_id =  *)
(* ?)" as SQL reads it: "and" binds tighter than "or", so the filter      *)
(* joins the right operand of an "or" that is not within parentheses.     *)
WhereAnd(c, filter, row) ==
    IF c.kind = "or" /\ ~c.grouped
    THEN Where(c.left, row) \/ (Where(c.right, row) /\ filter)
    ELSE Where(c, row) /\ filter

(* Faulty variant: the rows are not restricted to the user of the token. *)
searchTargets_AnyUser(db, st, condition) ==
    {t \in db.target : WhereAnd(condition, TRUE, t)}

(* The rows searchTargets finds; it returns the unmarshalled Item of each. *)
searchTargets(db, st, condition) ==
    {t \in db.target :
        WhereAnd(condition,
                 t.BoundaryAddr = st.BoundaryAddr /\ t.BoundaryUserId = st.UserId,
                 t)}

searchTargets_err(found) ==
    IF \E st \in found : st.UserId = Empty \/ st.BoundaryAddr = Empty
    THEN InvalidParameter
    ELSE OK

(* The stored token of a lookup that found one. *)
Found(found) == CHOOSE st \in found : TRUE

Unmarshal(rows) == {RemoteTarget(t.Id, t.Item) : t \in rows}

ListTargets_err(found, boundaryAddr, tokenName, keyringType) ==
    IF tokenName = Empty \/ keyringType = Empty \/ boundaryAddr = Empty
    THEN InvalidParameter
    ELSE IF found = {} THEN NotFound
    ELSE searchTargets_err(found)

(* The call of ListTargets or QueryTargets: the rows found are recorded   *)
(* beside the targets returned.                                           *)
Searched(c, found, query, parsed, err) ==
    /\ Called([c EXCEPT
                  !.err = err,
                  !.tried = <<[ok |-> err = OK, query |-> query,
                               rows |-> IF err = OK
                                        THEN searchTargets(Database, Found(found),
                                                           parsed.Condition)
                                        ELSE {},
                               targets |-> IF err = OK
                                           THEN Unmarshal(searchTargets(Database,
                                                    Found(found), parsed.Condition))
                                           ELSE {}]>>])
    /\ UNCHANGED <<now, keyring, cache_user, cache_stored_token, cache_target>>

(* Args: tuples of boundary address, token name, keyring type *)
ListTargets(Args) ==
    \E a \in Args :
        Searched([CacheCall("ListTargets") EXCEPT
                     !.addr = a[1], !.tokenName = a[2], !.keyringType = a[3]],
                 lookupStoredAuthToken(Database, a[1], a[2], a[3]),
                 EmptyQuery,
                 [err |-> OK, Condition |-> TrueCondition],
                 ListTargets_err(lookupStoredAuthToken(Database, a[1], a[2], a[3]),
                                 a[1], a[2], a[3]))

QueryTargets_err(found, boundaryAddr, tokenName, keyringType, query) ==
    IF tokenName = Empty \/ keyringType = Empty \/ boundaryAddr = Empty
       \/ query = EmptyQuery
    THEN InvalidParameter
    ELSE IF found = {} THEN NotFound
    ELSE IF mql_Parse(query).err # OK THEN InvalidParameter
    ELSE searchTargets_err(found)

QueryTargets(Args, Queries) ==
    \E a \in Args, query \in Queries :
        Searched([CacheCall("QueryTargets") EXCEPT
                     !.addr = a[1], !.tokenName = a[2], !.keyringType = a[3]],
                 lookupStoredAuthToken(Database, a[1], a[2], a[3]),
                 query,
                 IF query = EmptyQuery
                 THEN [err |-> InvalidParameter, Condition |-> TrueCondition]
                 ELSE mql_Parse(query),
                 QueryTargets_err(lookupStoredAuthToken(Database, a[1], a[2], a[3]),
                                  a[1], a[2], a[3], query))

----------------------------------------------------------------------------
(* Specification of the search: two users hold tokens, the targets of each *)
(* are refreshed, and targets are listed and queried with the token of     *)
(* either user, with an unknown token and with another boundary address.   *)

SearchArgs ==
    {<<1, 1, 1>>, <<1, 2, 1>>, <<2, 1, 1>>, <<1, 1, 2>>,
     <<Empty, 1, 1>>, <<1, Empty, 1>>, <<1, 1, Empty>>}

SearchQueries ==
    {EmptyQuery,
     Comparison("Id", 1),
     Comparison("BoundaryUserId", 2),
     Comparison("Item", 1),
     Logical("or", Comparison("Id", 2), Comparison("Id", 1)),
     Logical("or", Comparison("BoundaryUserId", 2), Comparison("Id", 1)),
     Logical("and", Comparison("Id", 1),
             Logical("or", Comparison("BoundaryUserId", 1),
                           Comparison("BoundaryUserId", 2)))}

InitSearch ==
    /\ now = personaLimit
    /\ InitNoToken
    /\ InitListWith({}, [i \in Ids |-> AbsentRow])
    /\ cache_stored_token = {storedToken(1, 1, 1, 1, 1, personaLimit),
                             storedToken(1, 2, 1, 2, 2, personaLimit)}
    /\ cache_user = {UserOf(p) : p \in cache_stored_token}
    /\ cache_target = {}
    /\ keyring = RefreshKeys
    /\ call = NoCacheCall
    /\ ncalls = 0
    /\ InitNoProxy
    /\ InitNoInflight

NextSearch ==
    \/ RefreshTargets(RefreshUsers, RefreshSnapshots)
    \/ DeleteStoredToken({<<1, 1>>})
    \/ ListTargets(SearchArgs)
    \/ QueryTargets(SearchArgs, SearchQueries)

SpecSearch == InitSearch /\ [][NextSearch]_vars

----------------------------------------------------------------------------
(* Claims on the search (specification SpecSearch) *)

SearchedTargets ==
    /\ call'.op \in {"ListTargets", "QueryTargets"}
    /\ ncalls' = ncalls + 1

(* The stored token the arguments of a call identify, as a set. *)
CallerToken(tokens, c) ==
    {p \in tokens : /\ KeyOf(p) = Key(c.keyringType, c.tokenName)
                    /\ p.BoundaryAddr = c.addr}

\* C22: ListTargets and QueryTargets, called with a boundary address, a
\* token name and a keyring type that are not empty, return only cached
\* targets of the (boundary address, user id) of the stored token these
\* identify, whatever the query: ListTargets all of them, QueryTargets
\* none of another user; and they fail with NotFound when there is no
\* such stored token.
C22_OnlyCallersTargets ==
    [][(SearchedTargets
          /\ call'.addr # Empty /\ call'.tokenName # Empty
          /\ call'.keyringType # Empty
          /\ (call'.op = "QueryTargets" => call'.tried[1].query # EmptyQuery)) =>
        IF CallerToken(cache_stored_token, call') = {}
        THEN call'.err = NotFound /\ call'.tried[1].targets = {}
        ELSE \A st \in CallerToken(cache_stored_token, call') :
                /\ \A t \in call'.tried[1].rows : TargetUser(t) = UserOf(st)
                /\ call'.tried[1].targets
                      \subseteq TargetsOf(cache_target, UserOf(st))
                /\ (call'.op = "ListTargets" =>
                      /\ call'.err = OK
                      /\ call'.tried[1].targets = TargetsOf(cache_target, UserOf(st)))
      ]_vars

C22_Witness ==
    /\ call.op = "QueryTargets" /\ call.err = OK
    /\ call.addr = 1 /\ Key(call.keyringType, call.tokenName) = Key(1, 1)
    /\ call.tried[1].query
          = Logical("or", Comparison("BoundaryUserId", 2), Comparison("Id", 1))
    /\ call.tried[1].targets = {RemoteTarget(1, 1)}
    /\ TargetsOf(cache_target, User(1, 2)) = {RemoteTarget(1, 2), RemoteTarget(2, 1)}

----------------------------------------------------------------------------
(* The client session proxy (part_000): ClientProxy.Start, the accept     *)
(* task, the budget task, the per-connection tasks and ListenerAddr.      *)
(* For the proxy one unit of the clock is two and a half minutes.         *)

(* The five minutes of buffer before the expiration. *)
TeardownMargin == 2

(* p.ctx: the context given to New with the expiration as its deadline. *)
CtxDone == proxy.cancelled \/ now >= proxy.expiration

ProxyStep(nproxy, ntask) ==
    /\ proxy' = nproxy
    /\ task' = ntask
    /\ UNCHANGED <<now, la, tokvars, listvars, cachevars, inflight>>

(* A per-connection task: its position and the remaining-connections     *)
(* count the worker gave it.                                              *)
Conn(st, n) == [st |-> st, n |-> n]

ConnIn(c, st) == task.conns[c].st = st

(* New, as far as Start depends on it. *)
New(expiration, callerConnectionsLeftCh, connectionLimit) ==
    [NoProxy EXCEPT !.expiration = expiration,
                    !.callerConnectionsLeftCh = callerConnectionsLeftCh,
                    !.connectionsLeft = connectionLimit]

(* Faulty variant: the remaining connections are left as they are. *)
listenerCloseFunc_store_Keep(px) == px

listenerCloseFunc_store(px) == [px EXCEPT !.connectionsLeft = 0]

listenerCloseFunc_close(px) ==
    [px EXCEPT !.listener = "closed", !.closes = @ + 1]

(* Faulty variant: the function runs whether or not it ran before. *)
listenerCloseOnce_Do_Again(px) ==
    [listenerCloseFunc_close(listenerCloseFunc_store(px)) EXCEPT
        !.listenerCloseOnce = TRUE]

(* listenerCloseOnce.Do(listenerCloseFunc), run as one step. *)
listenerCloseOnce_Do(px) ==
    IF px.listenerCloseOnce THEN px
    ELSE [listenerCloseFunc_close(listenerCloseFunc_store(px)) EXCEPT
            !.listenerCloseOnce = TRUE]

(* The deferred calls of Start: the listener is closed once, then the     *)
(* context is cancelled.                                                  *)
Start_deferred(px) ==
    [listenerCloseOnce_Do(px) EXCEPT !.cancelled = TRUE]

(* net.ListenTCP succeeds: the listener is stored and the accept task and *)
(* the budget task are spawned.                                           *)
Start_Listen(Addrs) ==
    \E a \in Addrs :
        /\ task.start = "new"
        /\ ProxyStep([proxy EXCEPT !.listener = "open", !.addr = a, !.connWg = 2],
                     [task EXCEPT !.start = "wait", !.accept = "accept",
                                  !.budget = "select"])

(* net.ListenTCP fails: Start returns the error; only p.cancel is deferred. *)
Start_ListenFails ==
    /\ task.start = "new"
    /\ ProxyStep([proxy EXCEPT !.cancelled = TRUE],
                 [task EXCEPT !.start = "returned", !.retErr = TRUE])

(* Faulty variant: Start does not wait for the tasks. *)
Start_Wait_NoWait ==
    /\ task.start = "wait"
    /\ ProxyStep(proxy, [task EXCEPT !.start = "select"])

(* p.connWg.Wait() returns. *)
Start_Wait ==
    /\ task.start = "wait"
    /\ proxy.connWg = 0
    /\ ProxyStep(proxy, [task EXCEPT !.start = "select"])

(* Faulty variant: the teardown is decided by the clock alone. *)
sendSessionCancel_ByClock(done, t, expiration) ==
    IF t < expiration - TeardownMargin THEN "time" ELSE "skip"

(* The select that decides sendSessionCancel and what decided it. *)
sendSessionCancel(done, t, expiration) ==
    IF done THEN "ctx"
    ELSE IF t < expiration - TeardownMargin THEN "time"
    ELSE "skip"

Start_Select ==
    /\ task.start = "select"
    /\ IF sendSessionCancel(CtxDone, now, proxy.expiration) = "skip"
       THEN ProxyStep(Start_deferred([proxy EXCEPT !.decided = "skip"]),
                      [task EXCEPT !.start = "returned"])
       ELSE ProxyStep([proxy EXCEPT !.decided =
                            sendSessionCancel(CtxDone, now, proxy.expiration)],
                      [task EXCEPT !.start = "teardown"])

(* sendSessionTeardown under its own timeout; its error is returned. *)
Start_Teardown ==
    \E fails \in BOOLEAN :
        /\ task.start = "teardown"
        /\ ProxyStep(Start_deferred([proxy EXCEPT !.teardowns = @ + 1]),
                     [task EXCEPT !.start = "returned", !.retErr = fails])

(* The accept task: AcceptTCP returns a client connection and its task is *)
(* spawned.  The connections are numbered in the order of their arrival.  *)
Accept_Conn ==
    \E c \in DOMAIN task.conns :
        /\ task.accept = "accept"
        /\ proxy.listener = "open"
        /\ ConnIn(c, "none")
        /\ \A d \in DOMAIN task.conns : d < c => ~ConnIn(d, "none")
        /\ ProxyStep([proxy EXCEPT !.connWg = @ + 1],
                     [task EXCEPT !.conns[c] = Conn("open", 0)])

(* AcceptTCP fails with net.ErrClosed. *)
Accept_Closed ==
    /\ task.accept = "accept"
    /\ proxy.listener = "closed"
    /\ ProxyStep(proxy, [task EXCEPT !.accept = "erred", !.err = "closed"])

(* AcceptTCP fails with another error. *)
Accept_Error ==
    /\ task.accept = "accept"
    /\ proxy.listener = "open"
    /\ ProxyStep(proxy, [task EXCEPT !.accept = "erred", !.err = "other"])

(* Faulty variant: any accept error ends the task. *)
Accept_ends_OnError(done, err) == TRUE

(* Whether the select after a failed accept ends the task. *)
Accept_ends(done, err) == done \/ err = "closed"

Accept_Select ==
    /\ task.accept = "erred"
    /\ IF Accept_ends(CtxDone, task.err)
       THEN ProxyStep([proxy EXCEPT !.connWg = @ - 1],
                      [task EXCEPT !.accept = "exited"])
       ELSE ProxyStep(proxy, [task EXCEPT !.accept = "accept"])

(* A per-connection task: getWsConn opens the stream to the worker and    *)
(* the handshake tells the remaining connections.                         *)
Conn_Open(Counts) ==
    \E c \in DOMAIN task.conns, n \in Counts :
        /\ ConnIn(c, "open")
        /\ ~CtxDone
        /\ ProxyStep(proxy, [task EXCEPT !.conns[c] = Conn("send", n)])

(* getWsConn fails: the task ends. *)
Conn_OpenFails ==
    \E c \in DOMAIN task.conns :
        /\ ConnIn(c, "open")
        /\ ProxyStep([proxy EXCEPT !.connWg = @ - 1],
                     [task EXCEPT !.conns[c] = Conn("failed", 0)])

(* The copy between the client and the worker ends, by itself or because  *)
(* the context is done.                                                   *)
Conn_Finish ==
    \E c \in DOMAIN task.conns :
        /\ ConnIn(c, "serve")
        /\ ProxyStep([proxy EXCEPT !.connWg = @ - 1],
                     [task EXCEPT !.conns[c] = Conn("exited", @.n)])

(* The budget task receives a count a per-connection task sends on        *)
(* connsLeftCh and stores it.                                             *)
Budget_Receive ==
    \E c \in DOMAIN task.conns :
        /\ task.budget = "select"
        /\ ConnIn(c, "send")
        /\ ProxyStep([proxy EXCEPT !.connectionsLeft = task.conns[c].n],
                     [task EXCEPT !.budget = "forward",
                                  !.connsLeft = task.conns[c].n,
                                  !.conns[c] = Conn("serve", @.n)])

(* Faulty variant: the budget task goes on whatever the count. *)
Budget_next_Select(connsLeft) == "select"

(* Where the budget task goes on after a count: it returns on zero. *)
Budget_next(connsLeft) == IF connsLeft = 0 THEN "close" ELSE "select"

(* callerConnectionsLeftCh is nil: nothing is forwarded. *)
Budget_Forward ==
    /\ task.budget = "forward"
    /\ ~proxy.callerConnectionsLeftCh
    /\ ProxyStep(proxy, [task EXCEPT !.budget = Budget_next(task.connsLeft)])

(* The caller receives the count the budget task sends it. *)
Caller_Receive ==
    /\ task.budget = "forward"
    /\ proxy.callerConnectionsLeftCh
    /\ ProxyStep(proxy, [task EXCEPT !.budget = Budget_next(task.connsLeft)])

(* The budget task finds the context done. *)
Budget_CtxDone ==
    /\ task.budget = "select"
    /\ CtxDone
    /\ ProxyStep(proxy, [task EXCEPT !.budget = "close"])

(* The deferred listenerCloseOnce.Do of the budget task: the count is     *)
(* set to zero, then the listener is closed.                              *)
Budget_Once ==
    /\ task.budget = "close"
    /\ IF proxy.listenerCloseOnce
       THEN ProxyStep(proxy, [task EXCEPT !.budget = "done"])
       ELSE ProxyStep([listenerCloseFunc_store(proxy) EXCEPT
                          !.listenerCloseOnce = TRUE],
                      [task EXCEPT !.budget = "closing"])

Budget_Close ==
    /\ task.budget = "closing"
    /\ ProxyStep(listenerCloseFunc_close(proxy), [task EXCEPT !.budget = "done"])

(* The deferred connWg.Done of the budget task. *)
Budget_Done ==
    /\ task.budget = "done"
    /\ ProxyStep([proxy EXCEPT !.connWg = @ - 1], [task EXCEPT !.budget = "drain"])

(* The deferred drain: a count a task is sending is received and dropped. *)
Budget_Drain ==
    \E c \in DOMAIN task.conns :
        /\ task.budget = "drain"
        /\ ConnIn(c, "send")
        /\ ProxyStep(proxy, [task EXCEPT !.conns[c] = Conn("serve", @.n)])

(* The drain finds no count to receive: the budget task is over. *)
Budget_Exit ==
    /\ task.budget = "drain"
    /\ \A c \in DOMAIN task.conns : ~ConnIn(c, "send")
    /\ ProxyStep(proxy, [task EXCEPT !.budget = "exited"])

(* The caller cancels the context given to New while Start runs. *)
Cancel ==
    /\ ~proxy.cancelled
    /\ task.start \notin {"new", "returned"}
    /\ ProxyStep([proxy EXCEPT !.cancelled = TRUE], task)

ProxyTick(Instants) ==
    \E t \in Instants :
        /\ t > now
        /\ now' = t
        /\ UNCHANGED <<proxyvars, tokvars, listvars, cachevars, inflight>>

(* The address of the listener, netip.AddrPort{} when there is none. *)
ListenerAddrPort(px) == IF px.listener = "nil" THEN Empty ELSE px.addr

(* Faulty variant: the address is returned without a look at the listener. *)
ListenerAddr_timer_Now(px) == TRUE

(* Whether the timer branch of the polling loop returns. *)
ListenerAddr_timer(px) == px.listener # "nil"

LaStep(nproxy, nla) ==
    /\ proxy' = nproxy
    /\ la' = nla
    /\ UNCHANGED <<now, task, tokvars, listvars, cachevars, inflight>>

(* The call returns addr, which it caches. *)
ListenerAddr_returns(addr) ==
    LaStep([proxy EXCEPT !.cachedListenerAddrPort = addr],
           [la EXCEPT !.pc = "returned", !.ret = addr])

(* ListenerAddr is called with a nil context, a live one or a cancelled   *)
(* one: the switch at its begin.                                          *)
ListenerAddr(Ctxs) ==
    \E ctx \in Ctxs :
        /\ la.pc = "idle"
        /\ IF proxy.cachedListenerAddrPort # Empty
           THEN LaStep(proxy, [NoListenerAddr EXCEPT
                                  !.pc = "returned", !.ctx = ctx,
                                  !.ret = proxy.cachedListenerAddrPort])
           ELSE IF proxy.listener # "nil"
           THEN LaStep([proxy EXCEPT !.cachedListenerAddrPort = ListenerAddrPort(proxy)],
                       [NoListenerAddr EXCEPT
                           !.pc = "returned", !.ctx = ctx,
                           !.ret = ListenerAddrPort(proxy)])
           ELSE IF ctx = "nil"
           THEN LaStep(proxy, [NoListenerAddr EXCEPT
                                  !.pc = "returned", !.ctx = ctx, !.ret = Empty])
           ELSE LaStep(proxy, [NoListenerAddr EXCEPT
                                  !.pc = "poll", !.ctx = ctx, !.polled = TRUE])

(* The timer of the polling loop fires. *)
ListenerAddr_Timer ==
    /\ la.pc = "poll"
    /\ IF ListenerAddr_timer(proxy)
       THEN ListenerAddr_returns(ListenerAddrPort(proxy))
       ELSE LaStep(proxy, la)

(* The polling loop finds the context of the call done. *)
ListenerAddr_CtxDone ==
    /\ la.pc = "poll"
    /\ la.ctx = "cancelled"
    /\ LaStep(proxy, [la EXCEPT !.pc = "returned", !.ret = Empty])

(* The caller cancels the context of the call in progress. *)
ListenerAddr_Cancel ==
    /\ la.pc = "poll"
    /\ la.ctx = "live"
    /\ LaStep(proxy, [la EXCEPT !.ctx = "cancelled"])

(* The caller takes the result: ListenerAddr may be called again. *)
ListenerAddr_Again ==
    /\ la.pc = "returned"
    /\ LaStep(proxy, [la EXCEPT !.pc = "idle"])

----------------------------------------------------------------------------
(* Specification of the proxy: a session that expires ten minutes after   *)
(* the proxy is made, with or without a channel of the caller, up to two  *)
(* client connections, a context the caller may cancel and a clock that   *)
(* passes five minutes before the expiration, then the expiration.        *)

ProxyExpirations == {2 * TeardownMargin}
ProxyInstants == {0, TeardownMargin, TeardownMargin + 1, 2 * TeardownMargin}
ProxyCounts == {0, 1}
ProxyConns == {1, 2}
ProxyAddrs == {1, 2}

InitProxyWith(Conns) ==
    /\ now = 0
    /\ InitNoToken
    /\ InitListWith({}, [i \in Ids |-> AbsentRow])
    /\ InitNoCache
    /\ InitNoInflight
    /\ \E e \in ProxyExpirations, ch \in BOOLEAN :
          proxy = New(e, ch, Cardinality(Conns))
    /\ task = [NoTasks EXCEPT !.conns = [c \in Conns |-> Conn("none", 0)]]
    /\ la = NoListenerAddr

InitProxy == InitProxyWith(ProxyConns)

NextStart ==
    \/ Start_Listen(ProxyAddrs)
    \/ Start_ListenFails
    \/ Start_Wait
    \/ Start_Select
    \/ Start_Teardown

NextTasks ==
    \/ Accept_Conn
    \/ Accept_Closed
    \/ Accept_Error
    \/ Accept_Select
    \/ Conn_Open(ProxyCounts)
    \/ Conn_OpenFails
    \/ Conn_Finish
    \/ Budget_Receive
    \/ Budget_Forward
    \/ Caller_Receive
    \/ Budget_CtxDone
    \/ Budget_Once
    \/ Budget_Close
    \/ Budget_Done
    \/ Budget_Drain
    \/ Budget_Exit

NextProxy ==
    \/ NextStart
    \/ NextTasks
    \/ Cancel
    \/ ProxyTick(ProxyInstants)

SpecProxy == InitProxy /\ [][NextProxy]_vars

----------------------------------------------------------------------------
(* Claims on the proxy (specification SpecProxy) *)

(* Start leaves the select that decides the teardown. *)
Decided ==
    /\ task.start = "select"
    /\ task'.start # "select"

\* C23: when all tasks have exited and the expiration has been reached or
\* is less than five minutes away, Start sends no teardown request.
C23_NoTeardownNearExpiration ==
    [][(Decided /\ proxy.expiration - now < TeardownMargin) =>
          /\ task'.start = "returned"
          /\ proxy'.teardowns = 0
      ]_vars

\* C24: when the context was cancelled after Start began, Start issues
\* the teardown request if and only if at least five minutes remain before
\* the expiration.
C24_CancelTeardown ==
    [][(Decided /\ proxy.cancelled) =>
          (task'.start = "teardown" <=> proxy.expiration - now >= TeardownMargin)
      ]_vars

\* C27: the listener-close action runs exactly once whatever exit paths
\* trigger it (the budget task on zero or on cancellation, the deferred
\* close of Start), and from the moment the listener is closed
\* ConnectionsLeft() is 0 and stays 0.
C27_CloseOnce ==
    /\ proxy.closes <= 1
    /\ proxy.listener = "closed" => proxy.closes = 1 /\ proxy.connectionsLeft = 0
    /\ (task.start = "returned" /\ proxy.listener # "nil") => proxy.closes = 1

C27_Witness ==
    /\ task.start = "returned" /\ proxy.decided = "time"
    /\ task.budget = "exited" /\ task.connsLeft = 0
    /\ task.conns[1] = Conn("exited", 1)
    /\ proxy.closes = 1 /\ proxy.connectionsLeft = 0

(* The accept task decides after a failed accept. *)
AcceptDecided ==
    /\ task.accept = "erred"
    /\ task'.accept # "erred"

(* The task of connection c ends because the worker stream did not open. *)
OpenFailed(c) ==
    /\ ConnIn(c, "open")
    /\ task'.conns[c].st = "failed"

\* C29: an accept error other than listener-closed, the context not being
\* done, does not end the accept task, which goes on accepting; the accept
\* task ends only when the context is done or the accept error is the
\* listener-closed error; a failure to open the worker stream for one
\* connection ends only the task of that connection.
C29_AcceptGoesOn ==
    [][
        /\ (AcceptDecided /\ task.err = "other" /\ ~CtxDone) => task'.accept = "accept"
        /\ (task.accept # "exited" /\ task'.accept = "exited")
              => (task.accept = "erred" /\ (CtxDone \/ task.err = "closed"))
        /\ \A c \in DOMAIN task.conns :
              OpenFailed(c) =>
                 /\ task' = [task EXCEPT !.conns[c] = task'.conns[c]]
                 /\ proxy' = [proxy EXCEPT !.connWg = @ - 1]
      ]_vars

C29_Witness ==
    /\ task.err = "other" /\ task.accept = "accept" /\ ~CtxDone
    /\ task.conns[1].st = "failed"
    /\ task.conns[2].st = "serve"

(* Configured, Listening, Draining, Closed as 0, 1, 2, 3. *)
Phase ==
    IF task.start = "new" THEN 0
    ELSE IF task.start = "returned" THEN 3
    ELSE IF proxy.listener = "open" /\ ~CtxDone /\ proxy.connectionsLeft # 0 THEN 1
    ELSE 2

(* The tasks Start spawned are over; the budget task counts as over once  *)
(* it has called connWg.Done, its deferred drain still to run.            *)
TasksExited ==
    /\ task.accept \in {"none", "exited"}
    /\ task.budget \in {"none", "drain", "exited"}
    /\ \A c \in DOMAIN task.conns : task.conns[c].st \in {"none", "failed", "exited"}

----------------------------------------------------------------------------
(* Specification of ListenerAddr: it is called, again and again, with a   *)
(* nil, a live or a cancelled context, before and after Start binds the   *)
(* listener or fails to, and after the listener is closed.                *)

ListenerAddrCtxs == {"nil", "live", "cancelled"}

InitListenerAddr == InitProxyWith({})

NextListenerAddr ==
    \/ Start_Listen(ProxyAddrs)
    \/ Start_ListenFails
    \/ Cancel
    \/ Budget_CtxDone
    \/ Budget_Once
    \/ Budget_Close
    \/ ListenerAddr(ListenerAddrCtxs)
    \/ ListenerAddr_Timer
    \/ ListenerAddr_CtxDone
    \/ ListenerAddr_Cancel
    \/ ListenerAddr_Again

SpecListenerAddr == InitListenerAddr /\ [][NextListenerAddr]_vars

\* C28: ListenerAddr returns the bound address once the listener exists;
\* called before the bind with a cancellable context it returns only when
\* the address has become available, returning it, or when that context
\* is cancelled, returning the empty address; called before the bind with
\* a nil context it returns the empty address at once; every valid address
\* it returns is the address of the listener bound by Start.
C28_ListenerAddr ==
    /\ [](la.ret # Empty => (proxy.listener # "nil" /\ la.ret = proxy.addr))
    /\ [][
          /\ (la.pc = "idle" /\ la'.pc # "idle") =>
                (IF proxy.listener # "nil"
                 THEN la'.pc = "returned" /\ la'.ret = proxy.addr
                 ELSE IF la'.ctx = "nil"
                 THEN la'.pc = "returned" /\ la'.ret = Empty
                 ELSE la'.pc = "poll")
          /\ (la.pc = "poll" /\ la'.pc = "returned") =>
                (\/ proxy.listener # "nil" /\ la'.ret = proxy.addr
                 \/ la.ctx = "cancelled" /\ la'.ret = Empty)
        ]_vars

C28_Witness ==
    /\ la.pc = "returned" /\ la.polled /\ la.ctx = "live"
    /\ la.ret = proxy.addr /\ la.ret # Empty
    /\ proxy.listener = "closed"

----------------------------------------------------------------------------
(* Specification of the proxy with its scheduling: Start and every task   *)
(* it spawned go on when they can; a client connection ends in the end;   *)
(* the caller receives from its channel as long as it has not cancelled.  *)
(* The clock, the clients that connect, the accept errors and the         *)
(* cancellation are left to the environment.                              *)

StartSteps == Start_Wait \/ Start_Select \/ Start_Teardown

AcceptSteps == Accept_Closed \/ Accept_Select

ConnSteps == Conn_Open(ProxyCounts) \/ Conn_OpenFails \/ Conn_Finish

BudgetSteps ==
    \/ Budget_Receive
    \/ Budget_Forward
    \/ Budget_CtxDone
    \/ Budget_Once
    \/ Budget_Close
    \/ Budget_Done
    \/ Budget_Drain
    \/ Budget_Exit

CallerSteps == Caller_Receive /\ ~proxy.cancelled

SpecProxyLive ==
    /\ InitProxy
    /\ [][NextProxy]_vars
    /\ WF_vars(StartSteps)
    /\ WF_vars(AcceptSteps)
    /\ WF_vars(ConnSteps)
    /\ WF_vars(BudgetSteps)
    /\ WF_vars(CallerSteps)

(* The budget task has just received the count zero. *)
ZeroReceived == task.budget = "forward" /\ task.connsLeft = 0

(* The expiration is more than five minutes away. *)
Far == now < proxy.expiration - TeardownMargin

C26_CancelStops ==
    (proxy.cancelled /\ task.start # "returned")
        ~> (/\ proxy.listener = "closed"
            /\ TasksExited
            /\ task.start = "returned")

(* The budget task has left its loop: it receives no count any more but   *)
(* in the one pass of its deferred drain.                                 *)
BudgetReturned == task.budget \in {"close", "closing", "done", "drain", "exited"}

\* C32: a per-connection task that stands at its send of a count on the
\* internal channel once the budget task has stopped receiving does not
\* stay there for ever: the send is drained and the task goes on.
C32_SendersDrained ==
    \A c \in ProxyConns :
        (BudgetReturned /\ ConnIn(c, "send")) ~> ~ConnIn(c, "send")

----------------------------------------------------------------------------
(* Further claims on the token state machine (specification SpecToken) *)

(* The subtype after the call carries the last item given to the call. *)
Advanced ==
    /\ tk.Subtype.LastItemId = tlast.lastItem.publicId
    /\ IF tk.Subtype.kind = PaginationKind
       THEN tk.Subtype.LastItemCreateTime = tlast.lastItem.createTime
       ELSE tk.Subtype.LastItemUpdateTime = tlast.lastItem.updateTime

(* The subtype after the call is of the kind it was before the call and   *)
(* carries the given last item.                                           *)
SameSubtypeAdvanced ==
    /\ tk.Subtype.kind = tlast.prev.Subtype.kind
    /\ Advanced

Transitioned == tlast.op = "Transition" /\ tlast.err = OK

\* C33 as stated: after every successful Transition the subtype is either
\* StartRefresh or the subtype it was before the call, advanced to the
\* given last item.
C33_SameOrStartRefresh ==
    Transitioned =>
        \/ tk.Subtype.kind = StartRefreshKind
        \/ SameSubtypeAdvanced

\* C33: after every successful Transition the subtype is StartRefresh, or
\* the subtype it was before the call advanced to the given last item, or,
\* for a StartRefresh token whose listing was not complete, a Refresh
\* subtype that carries the given last item.
C33_TerminalStates ==
    Transitioned =>
        \/ tk.Subtype.kind = StartRefreshKind
        \/ SameSubtypeAdvanced
        \/ /\ tlast.prev.Subtype.kind = StartRefreshKind
           /\ ~tlast.completeListing
           /\ tk.Subtype.kind = RefreshKind
           /\ Advanced

C33_Witness ==
    /\ Transitioned
    /\ tlast.prev.Subtype.kind = StartRefreshKind
    /\ ~tlast.completeListing
    /\ tk.Subtype.kind = RefreshKind
    /\ tk.Subtype.LastItemId = 2
    /\ tk.Subtype.PhaseLowerBound = tlast.prev.Subtype.PreviousPhaseUpperBound

\* C34: a Transition call replaces the subtype of the token and nothing
\* else: create time, resource type and grants hash keep their values over
\* every sequence of calls.
C34_TransitionFrame ==
    [][
        /\ tk'.CreateTime = tk.CreateTime
        /\ tk'.ResourceType = tk.ResourceType
        /\ tk'.GrantsHash = tk.GrantsHash
        /\ (tlast'.op = "Transition" => tk' = [tk EXCEPT !.Subtype = tk'.Subtype])
    ]_vars

C34_Witness ==
    /\ Transitioned
    /\ tlast.prev.Subtype.kind = PaginationKind
    /\ tlast.completeListing
    /\ tk.Subtype.kind = StartRefreshKind
    /\ tk.Subtype # tlast.prev.Subtype
    /\ tlast.listTime # tk.CreateTime
    /\ tk.CreateTime = tlast.prev.CreateTime
    /\ tk.GrantsHash = <<1>>
    /\ tk.ResourceType = "scope"

----------------------------------------------------------------------------
(* listtoken constructors at time n: the error they return, and the token *)
(* they return (none with an error).                                      *)

NewPagination_err(n, createTime, grantsHash, lastItemId, lastItemCreateTime) ==
    IF \/ Len(grantsHash) = 0
       \/ createTime > n
       \/ createTime < n - ThirtyDays
       \/ lastItemId = EmptyId
       \/ lastItemCreateTime > n
    THEN InvalidParameter ELSE OK

NewPagination(n, createTime, typ, grantsHash, lastItemId, lastItemCreateTime) ==
    IF NewPagination_err(n, createTime, grantsHash, lastItemId, lastItemCreateTime) # OK
    THEN NilToken
    ELSE Token(createTime, typ, grantsHash,
               PaginationToken(lastItemId, lastItemCreateTime))

NewStartRefresh_err(n, createTime, grantsHash, previousDeletedIdsTime, previousPhaseUpperBound) ==
    IF \/ Len(grantsHash) = 0
       \/ createTime > n
       \/ createTime < n - ThirtyDays
       \/ previousDeletedIdsTime > n
       \/ previousPhaseUpperBound > n
    THEN InvalidParameter ELSE OK

NewStartRefresh(n, createTime, typ, grantsHash, previousDeletedIdsTime, previousPhaseUpperBound) ==
    IF NewStartRefresh_err(n, createTime, grantsHash, previousDeletedIdsTime,
                           previousPhaseUpperBound) # OK
    THEN NilToken
    ELSE Token(createTime, typ, grantsHash,
               StartRefreshToken(previousPhaseUpperBound, previousDeletedIdsTime))

(* Faulty variant: the order of the two phase bounds is not checked *)
NewRefresh_err_NoOrder(n, createTime, grantsHash, previousDeletedIdsTime, phaseUpperBound, phaseLowerBound, lastItemId, lastItemUpdateTime) ==
    IF \/ Len(grantsHash) = 0
       \/ createTime > n
       \/ createTime < n - ThirtyDays
       \/ previousDeletedIdsTime > n
       \/ phaseUpperBound > n
       \/ phaseLowerBound > n
       \/ lastItemId = EmptyId
       \/ lastItemUpdateTime > n
    THEN InvalidParameter ELSE OK

NewRefresh_err(n, createTime, grantsHash, previousDeletedIdsTime, phaseUpperBound, phaseLowerBound, lastItemId, lastItemUpdateTime) ==
    IF \/ Len(grantsHash) = 0
       \/ createTime > n
       \/ createTime < n - ThirtyDays
       \/ previousDeletedIdsTime > n
       \/ phaseUpperBound > n
       \/ phaseLowerBound > n
       \/ phaseLowerBound > phaseUpperBound
       \/ lastItemId = EmptyId
       \/ lastItemUpdateTime > n
    THEN InvalidParameter ELSE OK

NewRefresh(n, createTime, typ, grantsHash, previousDeletedIdsTime, phaseUpperBound, phaseLowerBound, lastItemId, lastItemUpdateTime) ==
    IF NewRefresh_err(n, createTime, grantsHash, previousDeletedIdsTime, phaseUpperBound,
                      phaseLowerBound, lastItemId, lastItemUpdateTime) # OK
    THEN NilToken
    ELSE Token(createTime, typ, grantsHash,
               RefreshToken(phaseUpperBound, phaseLowerBound, previousDeletedIdsTime,
                            lastItemId, lastItemUpdateTime))

(* A constructor was called: tk is the token it returned. *)
Constructed(op, token) ==
    /\ tk' = token
    /\ tlast' = [NoCall EXCEPT !.op = op,
                    !.err = IF token = NilToken THEN InvalidParameter ELSE OK]
    /\ UNCHANGED <<now, listvars, cachevars, proxyvars, inflight>>

NewPaginationStep ==
    \E createTime \in TokTimes, typ \in TokTypes, g \in TokHashes,
       i \in TokIds, c \in TokFieldTimes :
        Constructed("NewPagination", NewPagination(now, createTime, typ, g, i, c))

NewStartRefreshStep ==
    \E createTime \in TokTimes, typ \in TokTypes, g \in TokHashes,
       d \in TokFieldTimes, u \in TokFieldTimes :
        Constructed("NewStartRefresh", NewStartRefresh(now, createTime, typ, g, d, u))

NewRefreshStep ==
    \E createTime \in TokTimes, typ \in TokTypes, g \in TokHashes,
       d \in TokFieldTimes, u \in TokFieldTimes, l \in TokFieldTimes,
       i \in TokIds, lu \in TokFieldTimes :
        Constructed("NewRefresh", NewRefresh(now, createTime, typ, g, d, u, l, i, lu))

InitNew ==
    /\ now = TokNow
    /\ tk = NilToken
    /\ tlast = NoCall
    /\ InitNoCache
    /\ InitNoProxy
    /\ InitNoInflight
    /\ InitListWith({}, [i \in Ids |-> AbsentRow])

NextNew ==
    \/ NewPaginationStep
    \/ NewStartRefreshStep
    \/ NewRefreshStep
    \/ ValidateStep

SpecNew == InitNew /\ [][NextNew]_vars

(* tk is a token a constructor has just returned without error. *)
JustConstructed ==
    /\ tlast.op \in {"NewPagination", "NewStartRefresh", "NewRefresh"}
    /\ tlast.err = OK

(* None of the times of the subtype that Validate compares with the      *)
(* create time is earlier than it.                                       *)
NotBeforeCreateTime(t) ==
    CASE t.Subtype.kind = StartRefreshKind ->
            /\ t.Subtype.PreviousPhaseUpperBound >= t.CreateTime
            /\ t.Subtype.PreviousDeletedIdsTime >= t.CreateTime
      [] t.Subtype.kind = RefreshKind ->
            /\ t.Subtype.PhaseUpperBound >= t.CreateTime
            /\ t.Subtype.PhaseLowerBound >= t.CreateTime
            /\ t.Subtype.PreviousDeletedIdsTime >= t.CreateTime
            /\ t.Subtype.LastItemUpdateTime >= t.CreateTime
      [] OTHER -> TRUE

\* C37 as stated: every token a constructor returns without error passes
\* Validate for its own resource type and grants hash at the same instant.
C37_ConstructedValidates ==
    JustConstructed => Validate(tk, now, tk.ResourceType, tk.GrantsHash) = OK

\* C37: a token a constructor returns without error passes Validate for
\* its own resource type and grants hash at the same instant exactly when
\* none of its phase bounds, previous deleted ids time and last item update
\* time is earlier than its create time; a Pagination token always does.
C37_ConstructedValidatesIff ==
    JustConstructed =>
        (Validate(tk, now, tk.ResourceType, tk.GrantsHash) = OK
            <=> NotBeforeCreateTime(tk))

C37_Witness ==
    /\ tlast.op = "NewRefresh"
    /\ tlast.err = OK
    /\ tk.Subtype.PhaseLowerBound < tk.Subtype.PhaseUpperBound
    /\ tk.Subtype.PhaseLowerBound = tk.CreateTime
    /\ Validate(tk, now, tk.ResourceType, tk.GrantsHash) = OK

----------------------------------------------------------------------------
(* Further claims on the list protocol (specification Spec) *)

\* C36: the token a list call returned passes Validate, for the resource
\* type and the grants hash of the call, when it is presented again, also
\* when the last item returned was read through the slack before the lower
\* bound of the phase.
C36_ReturnedTokenValidates ==
    (resp.err = OK /\ req.op # "none") =>
        Validate(tok, now, "target", req.grantsHash) = OK

(* The ids returned in the run of calls so far *)
RunIds == {run[k].id : k \in 1..Len(run)}

(* No item was returned twice in the run. *)
NoRepeat == \A j, k \in 1..Len(run) : run[j].id = run[k].id => j = k

(* The rows a refresh phase has to return: those updated after the lower  *)
(* bound of the phase less the read timeout.                              *)
RefreshDue(lower) ==
    {x.publicId : x \in {r \in Rows(store) :
                            r.updateTime > lower - DatabaseReadTimeout}}

\* C38: a run of list calls over a table that is not written, carried to
\* the end of the data, has returned every item the filter accepts exactly
\* once, in the initial pagination and in a refresh phase, for every page
\* size and also when items share their create time or update time.
C38_ExactlyOnce ==
    (clean /\ resp.err = OK /\ resp.completeListing) =>
        /\ req.op \in {"List", "ListPage"} =>
            /\ NoRepeat
            /\ RunIds = {x.publicId : x \in Rows(store)} \ denied
        /\ req.op = "ListRefresh" =>
            /\ NoRepeat
            /\ RunIds = RefreshDue(req.tok.Subtype.PreviousPhaseUpperBound) \ denied
        /\ req.op = "ListRefreshPage" =>
            /\ NoRepeat
            /\ RunIds = RefreshDue(req.tok.Subtype.PhaseLowerBound) \ denied

----------------------------------------------------------------------------
(* Further claims on the token cache (specification SpecCache) *)

(* The tables after the step *)
DatabaseAfter ==
    [user |-> cache_user', token |-> cache_stored_token', target |-> cache_target']

\* C35: an AddStoredToken of a keyring type and token name that are stored
\* under another boundary address adds a stored token of its own (no
\* eviction being due): the tokens listed are one more than before, and a
\* lookup under the earlier address and a lookup under the new address
\* both return a token.
C35_TokenPerAddress ==
    [][
        (/\ Added
         /\ Cardinality(cache_stored_token) < personaLimit
         /\ \E p \in cache_stored_token :
               KeyOf(p) = AddedKey /\ p.BoundaryAddr # call'.addr)
        =>
        (/\ Cardinality(cache_stored_token') = Cardinality(cache_stored_token) + 1
         /\ lookupStoredAuthToken(DatabaseAfter, call'.addr, call'.tokenName,
                                  call'.keyringType) # {}
         /\ \A p \in cache_stored_token :
               KeyOf(p) = AddedKey =>
                   lookupStoredAuthToken(DatabaseAfter, p.BoundaryAddr,
                                         call'.tokenName, call'.keyringType) # {})
    ]_vars

----------------------------------------------------------------------------
(* Specification of the token cache with ties: every token the cache      *)
(* holds was last accessed in the instant of the first call, as after a   *)
(* burst of calls within one tick of the clock.                           *)

FillersAt(n, t) == {storedToken(1, i, 1, i, i, t) : i \in 1..n}

InitTies ==
    /\ now = personaLimit
    /\ InitNoToken
    /\ InitListWith({}, [i \in Ids |-> AbsentRow])
    /\ \E n \in {personaLimit - 1, personaLimit} :
        /\ cache_stored_token = FillersAt(n, now)
        /\ cache_user = {UserOf(p) : p \in FillersAt(n, now)}
        /\ cache_target = {}
    /\ keyring = CacheKeyring
    /\ call = NoCacheCall
    /\ ncalls = 0
    /\ InitNoProxy
    /\ InitNoInflight

(* The calls made: a token the cache does not hold, under two addresses. *)
TiesAddArgs ==
    {<<addr, personaLimit + 1, 1, personaLimit + 1>> : addr \in {1, 2}}

NextTies ==
    \/ AddStoredToken(TiesAddArgs)
    \/ CacheTick

SpecTies == InitTies /\ [][NextTies]_vars

\* C39: after an AddStoredToken call the stored tokens are at most
\* personaLimit (50), and the token the call inserted or updated is among
\* them, also when tokens share their last accessed time.
C39_NewTokenKept ==
    [][
        Added =>
            /\ Cardinality(cache_stored_token') <= personaLimit
            /\ \E new \in cache_stored_token' : KeyOf(new) = AddedKey
    ]_vars

----------------------------------------------------------------------------
(* Further claims on Refresh (specification SpecRefresh) *)

\* C40: a Refresh in which no stored token of a user obtained a list of
\* targets from the remote leaves the targets cached for that user as they
\* were before the call.
C40_TargetsKept ==
    [][
        Refreshed =>
            \A u \in {call'.tried[i].user : i \in 1..Len(call'.tried)} :
                (\A i \in TriedOf(call', u) : ~Listed(call', i))
                    => TargetsOf(cache_target', u) = TargetsOf(cache_target, u)
    ]_vars

----------------------------------------------------------------------------
(* Two calls on the cache repository at once.  A call is a sequence of     *)
(* database statements and transactions; between two of them the           *)
(* statements of the other call can run.  AddStoredToken runs one          *)
(* transaction (both upserts and the eviction) and then the cleanup,       *)
(* deleteStoredToken and removeStaleStoredTokens run one delete and then   *)
(* the cleanup, the cleanup is a listing of the stored tokens followed by  *)
(* a delete of the users, refreshTargets looks the user up and then runs   *)
(* one transaction.                                                        *)

InflightOp(op, bAddr, tokenName, keyringType, targets) ==
    [op |-> op, bAddr |-> bAddr, tokenName |-> tokenName,
     keyringType |-> keyringType, targets |-> targets]

(* The position of a call before its first statement. *)
Inflight_start(o) ==
    CASE o.op = "cleanupOrphanedUsers" -> "list"
      [] o.op = "refreshTargets" -> "lookup"
      [] OTHER -> "write"

(* The databases the first statement or transaction of a call can leave. *)
Inflight_write(db, kr, o, t) ==
    CASE o.op = "AddStoredToken" ->
            {AddStoredToken_evict(
                 AddStoredToken_tx(db, o.bAddr,
                     tokenLookupFn(kr, o.keyringType, o.tokenName),
                     AddStoredToken_token(o.bAddr, o.tokenName, o.keyringType,
                         tokenLookupFn(kr, o.keyringType, o.tokenName), t)),
                 oldestToken) :
             oldestToken \in Oldest(
                 AddStoredToken_tx(db, o.bAddr,
                     tokenLookupFn(kr, o.keyringType, o.tokenName),
                     AddStoredToken_token(o.bAddr, o.tokenName, o.keyringType,
                         tokenLookupFn(kr, o.keyringType, o.tokenName), t)).token)}
      [] o.op = "deleteStoredToken" ->
            {[db EXCEPT !.token = @ \ LookupById(db, o.keyringType, o.tokenName)]}
      [] OTHER ->
            {[db EXCEPT !.token = @ \ Stale(@, t)]}

(* delete from cache_user where not (the users of the tokens listed) *)
cleanupOrphanedUsers_exec(db, st) ==
    DeleteUsers(db, {u \in db.user : \A t \in st : UserOf(t) # u})

(* The transaction of refreshTargets: the insert of a target whose user   *)
(* is gone violates the foreign key and rolls the delete back.            *)
refreshTargets_tx(db, u, targets) ==
    IF targets # {} /\ u \notin db.user
    THEN db
    ELSE [db EXCEPT !.target =
              {t \in @ : TargetUser(t) # u} \cup
              {CacheTarget(u.BoundaryAddr, u.UserId, t.Id, t.Item) : t \in targets}]

InflightStep(p, pc) ==
    /\ inflight' = [inflight EXCEPT !.pc[p] = pc]
    /\ UNCHANGED <<now, keyring, call, ncalls, tokvars, listvars, proxyvars>>

Inflight_Write ==
    \E p \in DOMAIN inflight.pc :
        /\ inflight.pc[p] = "write"
        /\ \E db \in Inflight_write(Database, keyring, inflight.ops[p], now) : Stored(db)
        /\ InflightStep(p, "list")

(* listStoredTokens, the first statement of cleanupOrphanedUsers *)
Inflight_List ==
    \E p \in DOMAIN inflight.pc :
        /\ inflight.pc[p] = "list"
        /\ inflight' = [inflight EXCEPT !.pc[p] = "exec",
                                        !.listed[p] = cache_stored_token]
        /\ UNCHANGED <<now, cache_user, cache_stored_token, cache_target,
                       keyring, call, ncalls, tokvars, listvars, proxyvars>>

Inflight_Exec ==
    \E p \in DOMAIN inflight.pc :
        /\ inflight.pc[p] = "exec"
        /\ Stored(cleanupOrphanedUsers_exec(Database, inflight.listed[p]))
        /\ InflightStep(p, "done")

Inflight_Lookup ==
    \E p \in DOMAIN inflight.pc :
        /\ inflight.pc[p] = "lookup"
        /\ UNCHANGED <<cache_user, cache_stored_token, cache_target>>
        /\ InflightStep(p, IF User(inflight.ops[p].bAddr, inflight.ops[p].tokenName)
                                  \in cache_user
                           THEN "tx" ELSE "done")

Inflight_Tx ==
    \E p \in DOMAIN inflight.pc :
        /\ inflight.pc[p] = "tx"
        /\ Stored(refreshTargets_tx(Database,
                      User(inflight.ops[p].bAddr, inflight.ops[p].tokenName),
                      inflight.ops[p].targets))
        /\ InflightStep(p, "done")

(* The databases a call leaves when it runs alone, from start to end. *)
Sequential(db, kr, o, t) ==
    CASE o.op = "AddStoredToken" ->
            {cleanupOrphanedUsers(d) : d \in Inflight_write(db, kr, o, t)}
      [] o.op = "deleteStoredToken" ->
            {deleteStoredToken(db, o.tokenName, o.keyringType)}
      [] o.op = "removeStaleStoredTokens" ->
            {removeStaleStoredTokens(db, t)}
      [] o.op = "cleanupOrphanedUsers" ->
            {cleanupOrphanedUsers(db)}
      [] OTHER ->
            {refreshTargets(db, User(o.bAddr, o.tokenName), o.targets, FALSE)}

InOrder(db, kr, first, second, t) ==
    UNION {Sequential(d, kr, second, t) : d \in Sequential(db, kr, first, t)}

(* The calls: two tokens of two users added, the first also under another *)
(* address, both deleted, the stale tokens removed, the cleanup alone,     *)
(* and the targets of both users refreshed.                                *)
InflightOps ==
    {InflightOp("AddStoredToken", 1, 1, 1, {}),
     InflightOp("AddStoredToken", 1, 2, 1, {}),
     InflightOp("AddStoredToken", 2, 1, 1, {}),
     InflightOp("deleteStoredToken", Empty, 1, 1, {}),
     InflightOp("deleteStoredToken", Empty, 2, 1, {}),
     InflightOp("removeStaleStoredTokens", Empty, Empty, Empty, {}),
     InflightOp("cleanupOrphanedUsers", Empty, Empty, Empty, {}),
     InflightOp("refreshTargets", 1, 1, Empty, {RemoteTarget(1, 2)}),
     InflightOp("refreshTargets", 1, 2, Empty, {})}

InflightNow == personaStalenessLimit + 2

(* The caches the calls start on: an empty one, one fresh token with a    *)
(* target, a stale token and a fresh one with a target each.              *)
InflightFills ==
    {{}, {storedToken(1, 1, 1, 1, 1, InflightNow)},
     {storedToken(1, 1, 1, 1, 1, 1), storedToken(1, 2, 1, 2, 2, InflightNow)}}

InitInflight ==
    /\ now = InflightNow
    /\ InitNoToken
    /\ InitListWith({}, [i \in Ids |-> AbsentRow])
    /\ \E tokens \in InflightFills :
        /\ cache_stored_token = tokens
        /\ cache_user = {UserOf(p) : p \in tokens}
        /\ cache_target = {CacheTarget(p.BoundaryAddr, p.UserId, 1, 1) : p \in tokens}
    /\ keyring = {Key(1, 1), Key(1, 2)}
    /\ call = NoCacheCall
    /\ ncalls = 0
    /\ InitNoProxy
    /\ \E a \in InflightOps, b \in InflightOps :
          inflight = [db0 |-> Database, ops |-> <<a, b>>,
                      pc |-> <<Inflight_start(a), Inflight_start(b)>>,
                      listed |-> <<{}, {}>>]

NextInflight ==
    \/ Inflight_Write
    \/ Inflight_List
    \/ Inflight_Exec
    \/ Inflight_Lookup
    \/ Inflight_Tx

SpecInflight == InitInflight /\ [][NextInflight]_vars

BothDone == \A p \in DOMAIN inflight.pc : inflight.pc[p] = "done"

(* C31: when two cache calls have run interleaved, the users, stored      *)
(* tokens and targets of the cache are those that one of the two          *)
(* sequential orders of the calls leaves.                                 *)
C31_Serializable ==
    (inflight.pc # <<>> /\ BothDone) =>
        Database \in InOrder(inflight.db0, keyring, inflight.ops[1], inflight.ops[2], now)
                     \cup InOrder(inflight.db0, keyring, inflight.ops[2], inflight.ops[1], now)

====
